---- MODULE Spec2Model ----
(***************************************************************************)
(* TorReputationStore (contracts/contracts/TorReputationStore.sol): the    *)
(* on-chain registry of relay records, its access control and its reads.   *)
(*                                                                         *)
(* One action per external function.  A Solidity `require` that fails      *)
(* reverts the whole transaction: the action then leaves the contract's    *)
(* storage as it was and reports the revert reason in `last`.              *)
(* Transactions are mined one at a time: `last` holds the transaction just *)
(* mined until Return hands its receipt to the sender.                     *)
(***************************************************************************)
EXTENDS Integers, Sequences, FiniteSets, TLC

\* ------------------------------------------------------------ constants

FINGERPRINT_LENGTH == 40
MAX_UPTIME == 1000
COUNTRY_CODE_LENGTH == 2

\* ------------------------------------------------------------ bounds

\* Longest batch handed to batchUpdateRelays.
MaxBatch == 2
\* block.timestamp ranges over 0 .. MaxTime.
MaxTime == 1
\* type(uint256).max, scaled down: a uint256 ranges over 0 .. UintMax, and a
\* checked addition whose sum is above UintMax panics.
UintMax == 7

\* ------------------------------------------------------------ identities

\* address(0)
ZeroAddress == "0x0"
\* The account that deploys the contract (msg.sender of the constructor).
Deployer == "0xA"
\* The externally owned accounts that send transactions.
Accounts == {"0xA", "0xB"}
Address == Accounts \cup {ZeroAddress}

\* ------------------------------------------------------------ revert reasons

ErrOnlyOwner == "Only owner can call this function"
ErrOnlyAuthorized == "Only owner or authorized updaters can call this function"
ErrZeroOwner == "New owner cannot be zero address"
ErrZeroUpdater == "Updater cannot be zero address"
ErrAlreadyAuthorized == "Address already authorized"
ErrNotAuthorized == "Address not authorized"
ErrFingerprint == "Invalid fingerprint length"
ErrUptime == "Uptime exceeds maximum"
ErrCountry == "Invalid country code"
ErrLastSeen == "Last seen cannot be in future"
ErrNickname == "Nickname cannot be empty"
ErrNotFound == "Relay not found"
ErrIndex == "Index out of bounds"
ErrOffset == "Offset out of bounds"
\* Panic(0x11): a checked arithmetic operation overflowed (Solidity 0.8).
PanicOverflow == "panic code 0x11"
NoError == ""

ValidationErrors == {ErrFingerprint, ErrUptime, ErrCountry, ErrLastSeen, ErrNickname}

\* ------------------------------------------------------------ records

\* struct RelayData
RelayData(fp, nick, fl, up, bw, cw, cc, asn, seen, run) ==
    [fingerprint |-> fp, nickname |-> nick, flags |-> fl, uptime |-> up,
     bandwidth |-> bw, consensusWeight |-> cw, country |-> cc,
     asNumber |-> asn, lastSeen |-> seen, running |-> run]

\* The value a mapping(string => RelayData) holds for a key never written.
ZeroRelay == RelayData("", "", <<>>, 0, 0, 0, "", "", 0, FALSE)

FpA == "AAAAAAAAAAAAAAAAAAAAAAAAAAAAAAAAAAAAAAAA"
FpB == "BBBBBBBBBBBBBBBBBBBBBBBBBBBBBBBBBBBBBBBB"
FpShort == "BBBBBBBBBBBBBBBBBBBBBBBBBBBBBBBBBBBBBBB"
FpLong == "BBBBBBBBBBBBBBBBBBBBBBBBBBBBBBBBBBBBBBBBB"

\* Well-formed records.  RelayA2 rewrites RelayA1's fingerprint with every
\* other field different and a shorter flags list; its lastSeen of 1 is in the
\* future while block.timestamp is 0.
RelayA1 == RelayData(FpA, "Relay1", <<"Guard", "Exit">>, 1000, 5, 7, "US", "AS1234", 0, TRUE)
RelayA2 == RelayData(FpA, "R", <<"Fast">>, 0, 0, 0, "DE", "", 1, FALSE)
RelayB1 == RelayData(FpB, "Relay2", <<>>, 950, 1, 2, "??", "AS0", 0, TRUE)

WellFormed == {RelayA1, RelayA2, RelayB1}

\* RelayB1 with one field breaking one rule.  (The fifth rule, lastSeen in the
\* future, is broken by RelayA2 while block.timestamp is 0.)
Malformed ==
    { [RelayB1 EXCEPT !.fingerprint = FpShort],
      [RelayB1 EXCEPT !.fingerprint = FpLong],
      [RelayB1 EXCEPT !.uptime = MAX_UPTIME + 1],
      [RelayB1 EXCEPT !.country = "U"],
      [RelayB1 EXCEPT !.country = "USA"],
      [RelayB1 EXCEPT !.nickname = ""] }

Relays == WellFormed \cup Malformed

\* The keys of relaysByFingerprint the model tracks.
Fingerprints == {r.fingerprint : r \in Relays}

RECURSIVE SeqsUpTo(_, _)
SeqsUpTo(S, n) ==
    IF n = 0 THEN {<<>>}
    ELSE LET shorter == SeqsUpTo(S, n - 1)
         IN  shorter \cup {Append(s, e) : s \in {t \in shorter : Len(t) = n - 1}, e \in S}

\* The batches handed to batchUpdateRelays: every sequence of up to MaxBatch
\* records with at most one malformed record, at any position.  (RelayA2 is a
\* second invalid record while block.timestamp is 0.)
Batches ==
    {b \in SeqsUpTo(Relays, MaxBatch) :
        Cardinality({i \in 1 .. Len(b) : b[i] \in Malformed}) <= 1}

\* ------------------------------------------------------------ feed

\* Longest answer of the Onionoo details endpoint.
MaxFeed == 3

\* transformers/relayData.ts
DEFAULT_RUNNING_UPTIME == 950
FALLBACK_RUNNING_UPTIME == 900
CONSENSUS_WEIGHT_MULTIPLIER == 50000
DEFAULT_COUNTRY_CODE == "??"
DEFAULT_AS_NUMBER == "AS0"

\* consensus_weight_fraction is a fraction of 1: the model holds its numerator
\* over FractionDenominator.
FractionDenominator == 100000
\* A numeric field the document does not carry.
Undefined == -1
\* What Date.getTime() returns for a string that is no date.
NaN == -1

FpALower == "aaaaaaaaaaaaaaaaaaaaaaaaaaaaaaaaaaaaaaaa"
FpC == "CCCCCCCCCCCCCCCCCCCCCCCCCCCCCCCCCCCCCCCC"
FpD == "DDDDDDDDDDDDDDDDDDDDDDDDDDDDDDDDDDDDDDDD"
\* 40 characters that are no hexadecimal digits.
FpGLower == "gggggggggggggggggggggggggggggggggggggggg"
FpG == "GGGGGGGGGGGGGGGGGGGGGGGGGGGGGGGGGGGGGGGG"

\* interface OnionooRelay, the fields transformRelay reads.  A details
\* document carries the long field names, none of the short ones (f, n, r, t).
\* A string or array the document does not carry is "" or <<>>, a number 0
\* (each falsy, as `||` treats them), running FALSE.
OnionooRelay(fp, nick, fl, run, seen, cwf, mbw, abw, cw, cc, asn) ==
    [fingerprint |-> fp, nickname |-> nick, flags |-> fl, running |-> run,
     last_seen |-> seen, consensus_weight_fraction |-> cwf,
     measured_bandwidth |-> mbw, advertised_bandwidth |-> abw,
     consensus_weight |-> cw, country |-> cc, as_number |-> asn]

\* OnionA: every field present, a lower-case fingerprint, last seen at 0.
OnionA == OnionooRelay(FpALower, "Relay1", <<"Guard", "Exit">>, TRUE,
                       "1970-01-01 00:00:00", 2000, 5, 9, 7, "us", "AS1234")
\* OnionB: only fingerprint, running, advertised bandwidth and weight present.
OnionB == OnionooRelay(FpB, "", <<>>, TRUE, "", Undefined, 0, 1, 2, "", "")
\* OnionC: the weight of OnionB, last seen at 1, not running.
OnionC == OnionooRelay(FpC, "Relay3", <<"Fast">>, FALSE,
                       "1970-01-01 00:00:01", 1, 0, 0, 2, "de", "1234")
\* OnionD: a country name of three letters.
OnionD == OnionooRelay(FpD, "Relay4", <<>>, TRUE,
                       "1970-01-01T00:00:00Z", Undefined, 3, 0, 0, "USA", "AS0")
\* OnionShort: a fingerprint of 39 characters.
OnionShort == OnionooRelay(FpShort, "Relay5", <<>>, TRUE,
                           "1970-01-01 00:00:00", Undefined, 0, 0, 8, "fr", "AS0")

Regular == {OnionA, OnionB, OnionC}
Odd == {OnionD, OnionShort}

\* The answers of the details endpoint: up to MaxFeed documents, no document
\* twice, at most one of the odd ones, in any order.
Feeds ==
    {f \in SeqsUpTo(Regular \cup Odd, MaxFeed) :
        /\ \A i, j \in 1 .. Len(f) : f[i] = f[j] => i = j
        /\ Cardinality({i \in 1 .. Len(f) : f[i] \in Odd}) <= 1}

\* The documents the transformer is tried on, one field varied against the
\* others: the fingerprint absent, in lower case, in upper case, too short,
\* too long, or no hexadecimal number; the nickname absent, present or blank;
\* running or not; last_seen absent, at 0, at 1 or no date;
\* consensus_weight_fraction absent, 0, 0.00001, 0.01, 0.02 or 0.05; the
\* country absent, of two letters or of three.
Entries ==
    {OnionooRelay(fp, nick, <<>>, run, seen, cwf, 0, 1, 7, cc, "1234") :
        fp \in {"", FpALower, FpB, FpShort, FpLong, FpGLower},
        nick \in {"", "Relay1", " "},
        run \in BOOLEAN,
        seen \in {"", "1970-01-01 00:00:00", "1970-01-01 00:00:01", "yesterday"},
        cwf \in {Undefined, 0, 1, 1000, 2000, 5000},
        cc \in {"", "us", "USA"}}

\* The answers of the details endpoint the transformer is tried on: one of
\* these documents, alone, before or after OnionC.
TransformerFeeds ==
    {<<e>> : e \in Entries} \cup {<<e, OnionC>> : e \in Entries}
        \cup {<<OnionC, e>> : e \in Entries}

\* The keys of relaysByFingerprint a run can write.
FeedFingerprints == {FpA, FpB, FpC, FpD}

\* BATCH_SIZE
BatchSizes == {1, 2}

\* The messages of the errors a submission throws for a reason of the RPC
\* endpoint rather than of the contract.
TransientMessages == {"429 rate limit exceeded", "nonce too low"}

\* error.message.includes('nonce') || error.message.includes('replacement')
IsNonceError(message) == message = "nonce too low"

\* Math.min
Min(a, b) == IF a <= b THEN a ELSE b

\* String.toUpperCase, on the fingerprints of the feed.
ToUpperCase(str) ==
    CASE str = FpALower -> FpA
      [] str = FpGLower -> FpG
      [] OTHER -> str

\* lastSeenStr.includes('Z') ? lastSeenStr : lastSeenStr.replace(' ', 'T') + 'Z',
\* on the timestamps of the feed.
UtcString(str) ==
    CASE str = "1970-01-01 00:00:00" -> "1970-01-01T00:00:00Z"
      [] str = "1970-01-01 00:00:01" -> "1970-01-01T00:00:01Z"
      [] OTHER -> str

\* Math.floor(new Date(utcString).getTime() / 1000), NaN for no date.
DateSeconds(utcString) ==
    CASE utcString = "1970-01-01T00:00:00Z" -> 0
      [] utcString = "1970-01-01T00:00:01Z" -> 1
      [] OTHER -> NaN

\* String.trim, on the nicknames of the feed.
Trim(str) == IF str \in {" ", "  "} THEN "" ELSE str

\* asNumber.startsWith("AS"), on the AS numbers of the feed.
StartsWithAS(str) == str \in {"AS0", "AS1234"}

\* Variant: the parsed timestamp is taken as it is, not capped at the clock.
transformRelayNoClamp(relay, ts) ==
    IF relay.fingerprint = "" \/ Len(relay.fingerprint) # FINGERPRINT_LENGTH THEN <<>>
    ELSE LET parsed == DateSeconds(UtcString(relay.last_seen))
             lastSeen == IF relay.last_seen # "" /\ parsed # NaN THEN parsed ELSE ts
             uptime == IF relay.consensus_weight_fraction # Undefined
                       THEN Min(MAX_UPTIME,
                                (relay.consensus_weight_fraction * CONSENSUS_WEIGHT_MULTIPLIER)
                                    \div FractionDenominator)
                       ELSE IF relay.running THEN FALLBACK_RUNNING_UPTIME
                       ELSE IF relay.running THEN DEFAULT_RUNNING_UPTIME ELSE 0
             bandwidth == IF relay.measured_bandwidth # 0 THEN relay.measured_bandwidth
                          ELSE IF relay.advertised_bandwidth # 0 THEN relay.advertised_bandwidth
                          ELSE 0
             asNumber == IF relay.as_number # "" THEN relay.as_number ELSE DEFAULT_AS_NUMBER
         IN  << RelayData(ToUpperCase(relay.fingerprint),
                          IF relay.nickname # "" THEN relay.nickname ELSE "Unknown",
                          relay.flags, uptime, bandwidth, relay.consensus_weight,
                          IF relay.country # "" THEN relay.country ELSE DEFAULT_COUNTRY_CODE,
                          IF StartsWithAS(asNumber) THEN asNumber ELSE "AS" \o asNumber,
                          lastSeen, relay.running) >>

\* Variant: the scaled fraction is not capped at MAX_UPTIME.
transformRelayNoCap(relay, ts) ==
    IF relay.fingerprint = "" \/ Len(relay.fingerprint) # FINGERPRINT_LENGTH THEN <<>>
    ELSE LET parsed == DateSeconds(UtcString(relay.last_seen))
             lastSeen == IF relay.last_seen # "" /\ parsed # NaN THEN Min(parsed, ts) ELSE ts
             uptime == IF relay.consensus_weight_fraction # Undefined
                       THEN (relay.consensus_weight_fraction * CONSENSUS_WEIGHT_MULTIPLIER)
                                \div FractionDenominator
                       ELSE IF relay.running THEN FALLBACK_RUNNING_UPTIME
                       ELSE IF relay.running THEN DEFAULT_RUNNING_UPTIME ELSE 0
             bandwidth == IF relay.measured_bandwidth # 0 THEN relay.measured_bandwidth
                          ELSE IF relay.advertised_bandwidth # 0 THEN relay.advertised_bandwidth
                          ELSE 0
             asNumber == IF relay.as_number # "" THEN relay.as_number ELSE DEFAULT_AS_NUMBER
         IN  << RelayData(ToUpperCase(relay.fingerprint),
                          IF relay.nickname # "" THEN relay.nickname ELSE "Unknown",
                          relay.flags, uptime, bandwidth, relay.consensus_weight,
                          IF relay.country # "" THEN relay.country ELSE DEFAULT_COUNTRY_CODE,
                          IF StartsWithAS(asNumber) THEN asNumber ELSE "AS" \o asNumber,
                          lastSeen, relay.running) >>

\* transformRelay: <<>> for null, the one record otherwise.  ts is
\* Math.floor(Date.now() / 1000).
transformRelay(relay, ts) ==
    IF relay.fingerprint = "" \/ Len(relay.fingerprint) # FINGERPRINT_LENGTH THEN <<>>
    ELSE LET parsed == DateSeconds(UtcString(relay.last_seen))
             lastSeen == IF relay.last_seen # "" /\ parsed # NaN THEN Min(parsed, ts) ELSE ts
             uptime == IF relay.consensus_weight_fraction # Undefined
                       THEN Min(MAX_UPTIME,
                                (relay.consensus_weight_fraction * CONSENSUS_WEIGHT_MULTIPLIER)
                                    \div FractionDenominator)
                       ELSE IF relay.running THEN FALLBACK_RUNNING_UPTIME
                       ELSE IF relay.running THEN DEFAULT_RUNNING_UPTIME ELSE 0
             bandwidth == IF relay.measured_bandwidth # 0 THEN relay.measured_bandwidth
                          ELSE IF relay.advertised_bandwidth # 0 THEN relay.advertised_bandwidth
                          ELSE 0
             asNumber == IF relay.as_number # "" THEN relay.as_number ELSE DEFAULT_AS_NUMBER
         IN  << RelayData(ToUpperCase(relay.fingerprint),
                          IF relay.nickname # "" THEN relay.nickname ELSE "Unknown",
                          relay.flags, uptime, bandwidth, relay.consensus_weight,
                          IF relay.country # "" THEN relay.country ELSE DEFAULT_COUNTRY_CODE,
                          IF StartsWithAS(asNumber) THEN asNumber ELSE "AS" \o asNumber,
                          lastSeen, relay.running) >>

validateRelayData(relay) ==
    /\ relay.fingerprint # "" /\ Len(relay.fingerprint) = 40
    /\ ~(relay.uptime > 1000)
    /\ relay.nickname # "" /\ Trim(relay.nickname) # ""

\* The fields of RelayData whose typeof is "number", and those whose typeof
\* is "string"; flags is an array and running a boolean.
NumberFields == {"uptime", "bandwidth", "consensusWeight", "lastSeen"}
StringFields == {"fingerprint", "nickname", "country", "asNumber"}

\* The strings of the records that are sorted, in the order of the collation
\* String.localeCompare follows.
Collation == <<FpA, "AS0", "AS1234", FpB, FpC, FpD, "DE", "Relay1", "Relay3", "US">>

CollationRank(str) == CHOOSE k \in 1 .. Len(Collation) : Collation[k] = str

\* String.localeCompare: negative, 0 or positive.
localeCompare(a, b) == CollationRank(a) - CollationRank(b)

\* The comparator sortRelays hands to Array.sort.
Comparator(a, b, by, desc) ==
    IF by \in NumberFields
    THEN IF desc THEN b[by] - a[by] ELSE a[by] - b[by]
    ELSE IF by \in StringFields
    THEN IF desc THEN localeCompare(b[by], a[by]) ELSE localeCompare(a[by], b[by])
    ELSE 0

\* Variant: a record is put before the records it compares equal to.
RECURSIVE InsertBeforeEqual(_, _, _, _)
InsertBeforeEqual(array, relay, by, desc) ==
    IF array = <<>> THEN <<relay>>
    ELSE IF Comparator(Head(array), relay, by, desc) < 0
         THEN <<Head(array)>> \o InsertBeforeEqual(Tail(array), relay, by, desc)
         ELSE <<relay>> \o array

\* Array.sort is stable (ECMAScript 2019): a record goes behind every record
\* the comparator does not put after it.
RECURSIVE Insert(_, _, _, _)
Insert(array, relay, by, desc) ==
    IF array = <<>> THEN <<relay>>
    ELSE IF Comparator(Head(array), relay, by, desc) <= 0
         THEN <<Head(array)>> \o Insert(Tail(array), relay, by, desc)
         ELSE <<relay>> \o array

\* [...relays].sort(comparator)
RECURSIVE ArraySort(_, _, _)
ArraySort(relays, by, desc) ==
    IF relays = <<>> THEN <<>>
    ELSE Insert(ArraySort(SubSeq(relays, 1, Len(relays) - 1), by, desc),
                relays[Len(relays)], by, desc)

\* sortRelays(relays, sortBy, descending = true); <<>> for an omitted argument.
sortRelays(relays, by, desc) ==
    ArraySort(relays, by, IF desc = <<>> THEN TRUE ELSE desc[1])

RECURSIVE TransformEach(_, _)
TransformEach(relays, ts) ==
    IF relays = <<>> THEN <<>>
    ELSE transformRelay(Head(relays), ts) \o TransformEach(Tail(relays), ts)

\* transformRelays(onionooRelays, {filterInvalid: true, sortBy: "consensusWeight"})
transformRelays(relays, ts) ==
    sortRelays(SelectSeq(TransformEach(relays, ts), validateRelayData), "consensusWeight", <<>>)

\* The loop of batchRelays from position i (0-based) on.
RECURSIVE BatchesFrom(_, _, _)
BatchesFrom(relays, i, size) ==
    IF ~(i < Len(relays)) THEN <<>>
    ELSE <<SubSeq(relays, i + 1, Min(i + size, Len(relays)))>>
             \o BatchesFrom(relays, i + size, size)

\* Variant: a last batch shorter than size is left out.
batchRelaysWholeOnly(relays, size) ==
    SelectSeq(BatchesFrom(relays, 0, size), LAMBDA batch : Len(batch) = size)

batchRelays(relays, size) == BatchesFrom(relays, 0, size)

\* interface UpdateResult
UpdateResult(success, relaysUpdated, error) ==
    [success |-> success, relaysUpdated |-> relaysUpdated, error |-> error]

\* No run has ended yet.
NoRun == [ended |-> FALSE, successful |-> 0, failed |-> 0, relayData |-> <<>>,
          map |-> <<>>, list |-> <<>>]

\* ------------------------------------------------------------ state

VARIABLES
    owner,                 \* address public owner
    authorizedUpdaters,    \* mapping(address => bool)
    relaysByFingerprint,   \* mapping(string => RelayData)
    fingerprintList,       \* string[]
    now,                   \* block.timestamp
    last,                  \* the transaction just mined: the call and its outcome
    previous,              \* history: the arguments of the latest successful write
                           \* when it was an updateRelay, <<>> otherwise
    grant,                 \* history: per account, the latest successful
                           \* addAuthorizedUpdater / removeAuthorizedUpdater naming it
    formerOwner,           \* history: the owner that made the latest successful
                           \* transferOwnership, ZeroAddress before the first one
    everWritten,           \* history: the fingerprints successfully written
    pc,                    \* ContractUpdater.run: where the run is ("off": no run)
    feed,                  \* the relays the Onionoo details endpoint answers with
    batchSize,             \* BATCH_SIZE
    dryRun,                \* --dry-run / DRY_RUN
    signer,                \* the address of UPDATER_PRIVATE_KEY
    relayData,             \* run: const relayData
    batches,               \* updateContract: const batches
    batchIndex,            \* updateContract: the loop variable i
    results,               \* updateContract: const results
    summary,               \* run: the summary printed, <<>> while none is
    events,                \* history: what the current run did, in order
    firstRun,              \* history: the outcome of the run before this one
    date,                  \* Home: Date.now() of the browser, in ms
    searchQuery,           \* Home: const [searchQuery, setSearchQuery]
    cacheData,             \* Home: const [cacheData, setCacheData]; <<>> for null
    isLoadingAll,          \* Home: const [isLoadingAll, setIsLoadingAll]
    loadingProgress,       \* Home: const [loadingProgress, setLoadingProgress]
    sweeps,                \* Home: the calls of fetchAllRelaysProgressively that run
    started,               \* history: how many such calls were started
    sortBy,                \* sortRelays: the argument sortBy ("": no call)
    descending,            \* sortRelays: the argument descending, <<>> when omitted
    sorted,                \* sortRelays: the array returned
    batchStart             \* batchRelays: the loop variable i

storage == <<owner, authorizedUpdaters, relaysByFingerprint, fingerprintList>>
transformerVars == <<sortBy, descending, sorted, batchStart>>
pipelineVars == <<pc, feed, batchSize, dryRun, signer, relayData, batches, batchIndex,
                  results, summary, events, firstRun, transformerVars>>
frontendVars == <<date, searchQuery, cacheData, isLoadingAll, loadingProgress, sweeps,
                  started>>
contractVars == <<owner, authorizedUpdaters, relaysByFingerprint, fingerprintList, now,
                  last, previous, grant, formerOwner, everWritten>>
vars == <<owner, authorizedUpdaters, relaysByFingerprint, fingerprintList, now,
          last, previous, grant, formerOwner, everWritten, pipelineVars, frontendVars>>

\* The page is not open.
NoFrontend ==
    /\ date = 0
    /\ searchQuery = ""
    /\ cacheData = <<>>
    /\ isLoadingAll = FALSE
    /\ loadingProgress = 0
    /\ sweeps = <<>>
    /\ started = 0

\* Neither sortRelays nor batchRelays is called on its own.
NoTransformerCall ==
    /\ sortBy = ""
    /\ descending = <<>>
    /\ sorted = <<>>
    /\ batchStart = 0

Call(op, sender, target, relays, ok, err) ==
    [op |-> op, sender |-> sender, target |-> target, relays |-> relays,
     ok |-> ok, err |-> err]

\* No transaction is waiting for its receipt.
Idle == Call("none", ZeroAddress, ZeroAddress, <<>>, TRUE, NoError)

\* constructor
Init ==
    /\ owner = Deployer
    /\ authorizedUpdaters = [a \in Address |-> FALSE]
    /\ relaysByFingerprint = [fp \in Fingerprints |-> ZeroRelay]
    /\ fingerprintList = <<>>
    /\ now \in 0 .. MaxTime
    /\ last = Call("constructor", Deployer, ZeroAddress, <<>>, TRUE, NoError)
    /\ previous = <<>>
    /\ grant = [a \in Address |-> "never"]
    /\ formerOwner = ZeroAddress
    /\ everWritten = {}
    /\ pc = "off"
    /\ feed = <<>>
    /\ batchSize = 1
    /\ dryRun = FALSE
    /\ signer = ZeroAddress
    /\ relayData = <<>>
    /\ batches = <<>>
    /\ batchIndex = 0
    /\ results = <<>>
    /\ summary = <<>>
    /\ events = <<>>
    /\ firstRun = NoRun
    /\ NoFrontend
    /\ NoTransformerCall

\* ------------------------------------------------------------ modifiers

\* Variant: the administrative functions carry the writers' modifier.
onlyOwnerOrUpdater(sender) == sender = owner \/ authorizedUpdaters[sender]

onlyOwner(sender) == sender = owner

\* Variant: the updater set is not consulted.
onlyAuthorizedOwnerOnly(sender) == sender = owner

onlyAuthorized(sender) == sender = owner \/ authorizedUpdaters[sender]

\* ------------------------------------------------------------ helpers

\* Variant: the uptime bound is off by one.
ValidationErrorUptimeOffByOne(relay, ts) ==
    IF Len(relay.fingerprint) # FINGERPRINT_LENGTH THEN ErrFingerprint
    ELSE IF ~(relay.uptime <= MAX_UPTIME + 1) THEN ErrUptime
    ELSE IF Len(relay.country) # COUNTRY_CODE_LENGTH THEN ErrCountry
    ELSE IF ~(relay.lastSeen <= ts) THEN ErrLastSeen
    ELSE IF ~(Len(relay.nickname) > 0) THEN ErrNickname
    ELSE NoError

\* Variant: the country code is not validated.
ValidationErrorNoCountry(relay, ts) ==
    IF Len(relay.fingerprint) # FINGERPRINT_LENGTH THEN ErrFingerprint
    ELSE IF ~(relay.uptime <= MAX_UPTIME) THEN ErrUptime
    ELSE IF ~(relay.lastSeen <= ts) THEN ErrLastSeen
    ELSE IF ~(Len(relay.nickname) > 0) THEN ErrNickname
    ELSE NoError

\* The input validation of updateRelay and of each iteration of
\* batchUpdateRelays: the reason of the first require that fails, NoError
\* when all five pass.  ts is block.timestamp.
ValidationError(relay, ts) ==
    IF Len(relay.fingerprint) # FINGERPRINT_LENGTH THEN ErrFingerprint
    ELSE IF ~(relay.uptime <= MAX_UPTIME) THEN ErrUptime
    ELSE IF Len(relay.country) # COUNTRY_CODE_LENGTH THEN ErrCountry
    ELSE IF ~(relay.lastSeen <= ts) THEN ErrLastSeen
    ELSE IF ~(Len(relay.nickname) > 0) THEN ErrNickname
    ELSE NoError

\* relaysByFingerprint[fp] on a given mapping: a key never written reads as
\* the zero struct.
Lookup(map, fp) == IF fp \in DOMAIN map THEN map[fp] ELSE ZeroRelay

\* Variant: the flags are left out of the struct that is stored.
WriteRelayNoFlags(st, relay) ==
    [map  |-> [st.map EXCEPT ![relay.fingerprint] = [relay EXCEPT !.flags = <<>>]],
     list |-> IF Len(Lookup(st.map, relay.fingerprint).fingerprint) = 0
              THEN Append(st.list, relay.fingerprint)
              ELSE st.list]

\* Variant: a relay counts as new while its stored lastSeen is 0.
WriteRelayNewByLastSeen(st, relay) ==
    [map  |-> [st.map EXCEPT ![relay.fingerprint] = relay],
     list |-> IF Lookup(st.map, relay.fingerprint).lastSeen = 0
              THEN Append(st.list, relay.fingerprint)
              ELSE st.list]

\* Variant: the new flags are pushed onto the stored flags array instead of
\* replacing it.
WriteRelayMergeFlags(st, relay) ==
    [map  |-> [st.map EXCEPT ![relay.fingerprint] =
                  [relay EXCEPT !.flags = Lookup(st.map, relay.fingerprint).flags \o relay.flags]],
     list |-> IF Len(Lookup(st.map, relay.fingerprint).fingerprint) = 0
              THEN Append(st.list, relay.fingerprint)
              ELSE st.list]

\* Variant: the fingerprint is pushed on every write.
WriteRelayAlwaysPush(st, relay) ==
    [map  |-> [st.map EXCEPT ![relay.fingerprint] = relay],
     list |-> Append(st.list, relay.fingerprint)]

\* Variant: a rewritten fingerprint is taken out of the list and pushed again.
WriteRelayReinsert(st, relay) ==
    LET Other(fp) == fp # relay.fingerprint
    IN  [map  |-> [st.map EXCEPT ![relay.fingerprint] = relay],
         list |-> Append(SelectSeq(st.list, Other), relay.fingerprint)]

\* The writes of one record: push the fingerprint when the relay is new, then
\* assign the whole struct.  st is [map, list].
WriteRelay(st, relay) ==
    [map  |-> [st.map EXCEPT ![relay.fingerprint] = relay],
     list |-> IF Len(Lookup(st.map, relay.fingerprint).fingerprint) = 0
              THEN Append(st.list, relay.fingerprint)
              ELSE st.list]

\* Variant: a record whose fingerprint came earlier in the same call is not
\* written.
RECURSIVE BatchLoopKeepsFirst(_, _, _, _)
BatchLoopKeepsFirst(st, relays, i, ts) ==
    IF i > Len(relays) THEN [err |-> NoError, st |-> st]
    ELSE LET e == ValidationError(relays[i], ts)
         IN  IF e # NoError THEN [err |-> e, st |-> st]
             ELSE IF \E j \in 1 .. i - 1 : relays[j].fingerprint = relays[i].fingerprint
             THEN BatchLoopKeepsFirst(st, relays, i + 1, ts)
             ELSE BatchLoopKeepsFirst(WriteRelay(st, relays[i]), relays, i + 1, ts)

\* The loop of batchUpdateRelays from iteration i (1-based here) on: each
\* record is validated and then written before the next one is looked at.
\* Returns the reason of the require that stopped the loop (NoError when it
\* ran to the end) and the storage as written up to there.
RECURSIVE BatchLoop(_, _, _, _)
BatchLoop(st, relays, i, ts) ==
    IF i > Len(relays) THEN [err |-> NoError, st |-> st]
    ELSE LET e == ValidationError(relays[i], ts)
         IN  IF e # NoError THEN [err |-> e, st |-> st]
             ELSE BatchLoop(WriteRelay(st, relays[i]), relays, i + 1, ts)

\* Variant: a failed validation stops the call without undoing its writes.
OutcomeKeepsWrites(err, before, after) == after

\* What a transaction leaves in storage: a failed require reverts every write
\* the call made, a call that returns keeps them.
Outcome(err, before, after) == IF err = NoError THEN after ELSE before

\* ------------------------------------------------------------ transactions

\* Variant: the new owner is not required to differ from the zero address.
transferOwnershipToAnyAddress(sender, newOwner) ==
    LET err == IF ~onlyOwner(sender) THEN ErrOnlyOwner
               ELSE NoError
    IN  /\ last = Idle
        /\ owner' = Outcome(err, owner, newOwner)
        /\ last' = Call("transferOwnership", sender, newOwner, <<>>, err = NoError, err)
        /\ formerOwner' = IF err = NoError THEN owner ELSE formerOwner
        /\ UNCHANGED <<authorizedUpdaters, relaysByFingerprint, fingerprintList, now,
                       previous, grant, everWritten,
                       pipelineVars, frontendVars>>

\* Variant: the owner that hands over is struck from the updaters.
transferOwnershipRevokes(sender, newOwner) ==
    LET err == IF ~onlyOwner(sender) THEN ErrOnlyOwner
               ELSE IF newOwner = ZeroAddress THEN ErrZeroOwner
               ELSE NoError
    IN  /\ last = Idle
        /\ owner' = Outcome(err, owner, newOwner)
        /\ authorizedUpdaters' =
              Outcome(err, authorizedUpdaters, [authorizedUpdaters EXCEPT ![sender] = FALSE])
        /\ last' = Call("transferOwnership", sender, newOwner, <<>>, err = NoError, err)
        /\ formerOwner' = IF err = NoError THEN owner ELSE formerOwner
        /\ UNCHANGED <<relaysByFingerprint, fingerprintList, now,
                       previous, grant, everWritten,
                       pipelineVars, frontendVars>>

transferOwnership(sender, newOwner) ==
    LET err == IF ~onlyOwner(sender) THEN ErrOnlyOwner
               ELSE IF newOwner = ZeroAddress THEN ErrZeroOwner
               ELSE NoError
    IN  /\ last = Idle
        /\ owner' = Outcome(err, owner, newOwner)
        /\ last' = Call("transferOwnership", sender, newOwner, <<>>, err = NoError, err)
        /\ formerOwner' = IF err = NoError THEN owner ELSE formerOwner
        /\ UNCHANGED <<authorizedUpdaters, relaysByFingerprint, fingerprintList, now,
                       previous, grant, everWritten,
                       pipelineVars, frontendVars>>

\* Variant: an account that is already authorized is accepted again.
addAuthorizedUpdaterAgain(sender, updater) ==
    LET err == IF ~onlyOwner(sender) THEN ErrOnlyOwner
               ELSE IF updater = ZeroAddress THEN ErrZeroUpdater
               ELSE NoError
    IN  /\ last = Idle
        /\ authorizedUpdaters' =
              Outcome(err, authorizedUpdaters, [authorizedUpdaters EXCEPT ![updater] = TRUE])
        /\ last' = Call("addAuthorizedUpdater", sender, updater, <<>>, err = NoError, err)
        /\ grant' = IF err = NoError THEN [grant EXCEPT ![updater] = "added"] ELSE grant
        /\ UNCHANGED <<owner, relaysByFingerprint, fingerprintList, now, previous,
                       formerOwner, everWritten,
                       pipelineVars, frontendVars>>

addAuthorizedUpdater(sender, updater) ==
    LET err == IF ~onlyOwner(sender) THEN ErrOnlyOwner
               ELSE IF updater = ZeroAddress THEN ErrZeroUpdater
               ELSE IF authorizedUpdaters[updater] THEN ErrAlreadyAuthorized
               ELSE NoError
    IN  /\ last = Idle
        /\ authorizedUpdaters' =
              Outcome(err, authorizedUpdaters, [authorizedUpdaters EXCEPT ![updater] = TRUE])
        /\ last' = Call("addAuthorizedUpdater", sender, updater, <<>>, err = NoError, err)
        /\ grant' = IF err = NoError THEN [grant EXCEPT ![updater] = "added"] ELSE grant
        /\ UNCHANGED <<owner, relaysByFingerprint, fingerprintList, now, previous,
                       formerOwner, everWritten,
                       pipelineVars, frontendVars>>

\* Variant: the flag is not cleared.
removeAuthorizedUpdaterKeepsFlag(sender, updater) ==
    LET err == IF ~onlyOwner(sender) THEN ErrOnlyOwner
               ELSE IF ~authorizedUpdaters[updater] THEN ErrNotAuthorized
               ELSE NoError
    IN  /\ last = Idle
        /\ authorizedUpdaters' = authorizedUpdaters
        /\ last' = Call("removeAuthorizedUpdater", sender, updater, <<>>, err = NoError, err)
        /\ grant' = IF err = NoError THEN [grant EXCEPT ![updater] = "removed"] ELSE grant
        /\ UNCHANGED <<owner, relaysByFingerprint, fingerprintList, now, previous,
                       formerOwner, everWritten,
                       pipelineVars, frontendVars>>

removeAuthorizedUpdater(sender, updater) ==
    LET err == IF ~onlyOwner(sender) THEN ErrOnlyOwner
               ELSE IF ~authorizedUpdaters[updater] THEN ErrNotAuthorized
               ELSE NoError
    IN  /\ last = Idle
        /\ authorizedUpdaters' =
              Outcome(err, authorizedUpdaters, [authorizedUpdaters EXCEPT ![updater] = FALSE])
        /\ last' = Call("removeAuthorizedUpdater", sender, updater, <<>>, err = NoError, err)
        /\ grant' = IF err = NoError THEN [grant EXCEPT ![updater] = "removed"] ELSE grant
        /\ UNCHANGED <<owner, relaysByFingerprint, fingerprintList, now, previous,
                       formerOwner, everWritten,
                       pipelineVars, frontendVars>>

updateRelay(sender, relay) ==
    LET before == [map |-> relaysByFingerprint, list |-> fingerprintList]
        err == IF ~onlyAuthorized(sender) THEN ErrOnlyAuthorized
               ELSE ValidationError(relay, now)
        after == Outcome(err, before, WriteRelay(before, relay))
    IN  /\ last = Idle
        /\ relaysByFingerprint' = after.map
        /\ fingerprintList' = after.list
        /\ last' = Call("updateRelay", sender, ZeroAddress, <<relay>>, err = NoError, err)
        /\ everWritten' = IF err = NoError THEN everWritten \cup {relay.fingerprint}
                          ELSE everWritten
        /\ UNCHANGED <<owner, authorizedUpdaters, now, previous, grant, formerOwner,
                       pipelineVars, frontendVars>>

batchUpdateRelays(sender, relays) ==
    LET before == [map |-> relaysByFingerprint, list |-> fingerprintList]
        run == IF ~onlyAuthorized(sender) THEN [err |-> ErrOnlyAuthorized, st |-> before]
               ELSE BatchLoop(before, relays, 1, now)
        after == Outcome(run.err, before, run.st)
    IN  /\ last = Idle
        /\ relaysByFingerprint' = after.map
        /\ fingerprintList' = after.list
        /\ last' = Call("batchUpdateRelays", sender, ZeroAddress, relays, run.err = NoError, run.err)
        /\ everWritten' = IF run.err = NoError
                          THEN everWritten \cup {relays[i].fingerprint : i \in 1 .. Len(relays)}
                          ELSE everWritten
        /\ UNCHANGED <<owner, authorizedUpdaters, now, previous, grant, formerOwner,
                       pipelineVars, frontendVars>>

\* The sender receives the receipt (or the revert reason) of the transaction
\* just mined; the next transaction can be mined.
Return ==
    /\ last # Idle
    /\ last' = Idle
    /\ previous' = IF last.ok /\ last.op = "updateRelay" THEN last.relays
                   ELSE IF last.ok /\ last.op = "batchUpdateRelays" THEN <<>>
                   ELSE previous
    /\ UNCHANGED <<owner, authorizedUpdaters, relaysByFingerprint, fingerprintList, now,
                   grant, formerOwner, everWritten,
                       pipelineVars, frontendVars>>

\* A later block: block.timestamp never decreases.
Tick ==
    /\ last = Idle
    /\ now < MaxTime
    /\ now' = now + 1
    /\ UNCHANGED <<owner, authorizedUpdaters, relaysByFingerprint, fingerprintList,
                   last, previous, grant, formerOwner, everWritten,
                       pipelineVars, frontendVars>>

\* ------------------------------------------------------------ views

getRelay(fingerprint) ==
    IF ~(Len(Lookup(relaysByFingerprint, fingerprint).fingerprint) > 0)
    THEN [ok |-> FALSE, err |-> ErrNotFound, value |-> ZeroRelay]
    ELSE [ok |-> TRUE, err |-> NoError, value |-> Lookup(relaysByFingerprint, fingerprint)]

getRelayCount == Len(fingerprintList)

getFingerprintByIndex(index) ==
    IF ~(index < Len(fingerprintList))
    THEN [ok |-> FALSE, err |-> ErrIndex, value |-> ""]
    ELSE [ok |-> TRUE, err |-> NoError, value |-> fingerprintList[index + 1]]

\* offset and limit are uint256: `offset + limit` is a checked addition.  The
\* result holds result[i] = relaysByFingerprint[fingerprintList[offset + i]]
\* for the 0-based i < resultLength (1-based here).
getRelaysPaginated(offset, limit) ==
    IF ~(offset < Len(fingerprintList))
    THEN [ok |-> FALSE, err |-> ErrOffset, value |-> <<>>]
    ELSE IF offset + limit > UintMax
    THEN [ok |-> FALSE, err |-> PanicOverflow, value |-> <<>>]
    ELSE LET end == IF offset + limit > Len(fingerprintList)
                    THEN Len(fingerprintList)
                    ELSE offset + limit
             resultLength == end - offset
         IN  [ok |-> TRUE, err |-> NoError,
              value |-> [i \in 1 .. resultLength |->
                            Lookup(relaysByFingerprint, fingerprintList[offset + i])]]

relayExists(fingerprint) == Len(Lookup(relaysByFingerprint, fingerprint).fingerprint) > 0

\* ------------------------------------------------------------ pipeline

\* ContractUpdater (scripts/src/processDownloadedData.ts).  A run is at "start",
\* "authorize" (updateContract's check), "loop" (the head of the loop over
\* the batches), "inflight" (inside the try block of batch batchIndex),
\* "delay" (the wait after a confirmed batch), "done" (run returned) or
\* "failed" (run caught an error and called process.exit(1)).

\* What the pipeline leaves alone.
fixedVars == <<owner, authorizedUpdaters, now, last, previous, grant, formerOwner,
               everWritten, feed, batchSize, dryRun, signer, frontendVars,
               transformerVars>>

\* One step of a run, as history keeps it.  batch is 0-based, as i is.
Event(kind, batch, error) == [kind |-> kind, batch |-> batch, error |-> error]

\* Variant: the contract writes the batch of any sender.
TransactionOfAnyone(sender, relays) ==
    BatchLoop([map |-> relaysByFingerprint, list |-> fingerprintList], relays, 1, now)

\* contract.batchUpdateRelays(relays) sent by sender, on the storage as it is:
\* the revert reason (NoError when the call returns) and the storage written.
Transaction(sender, relays) ==
    IF ~onlyAuthorized(sender)
    THEN [err |-> ErrOnlyAuthorized,
          st |-> [map |-> relaysByFingerprint, list |-> fingerprintList]]
    ELSE BatchLoop([map |-> relaysByFingerprint, list |-> fingerprintList], relays, 1, now)

\* results.reduce((sum, r) => sum + r.relaysUpdated, 0)
RECURSIVE SumRelaysUpdated(_)
SumRelaysUpdated(rs) ==
    IF rs = <<>> THEN 0 ELSE Head(rs).relaysUpdated + SumRelaysUpdated(Tail(rs))

\* results.filter((r) => r.success).length
CountSuccess(rs) == Cardinality({k \in 1 .. Len(rs) : rs[k].success})

\* results.filter((r) => !r.success).length
CountFailed(rs) == Cardinality({k \in 1 .. Len(rs) : ~rs[k].success})

\* The state before the first run: the contract as deployed, with or without
\* the second account added as an updater, and the configuration of the run.
InitPipeline ==
    /\ owner = Deployer
    /\ authorizedUpdaters \in {[a \in Address |-> FALSE], [a \in Address |-> a = "0xB"]}
    /\ relaysByFingerprint = [fp \in FeedFingerprints |-> ZeroRelay]
    /\ fingerprintList = <<>>
    /\ now \in 0 .. MaxTime
    /\ last = Idle
    /\ previous = <<>>
    /\ grant = [a \in Address |-> IF authorizedUpdaters[a] THEN "added" ELSE "never"]
    /\ formerOwner = ZeroAddress
    /\ everWritten = {}
    /\ pc = "start"
    /\ feed \in Feeds
    /\ batchSize \in BatchSizes
    /\ dryRun \in BOOLEAN
    /\ signer \in Accounts
    /\ relayData = <<>>
    /\ batches = <<>>
    /\ batchIndex = 0
    /\ results = <<>>
    /\ summary = <<>>
    /\ events = <<>>
    /\ firstRun = NoRun
    /\ NoFrontend
    /\ NoTransformerCall

\* run, step 1: fetchRelayData returns the feed transformed, filtered and
\* sorted; run returns when it is empty.
fetchRelayData ==
    /\ pc = "start"
    /\ relayData' = transformRelays(feed, now)
    /\ pc' = IF Len(relayData') = 0 THEN "done" ELSE "authorize"
    /\ UNCHANGED <<relaysByFingerprint, fingerprintList, batches, batchIndex, results,
                   summary, events, firstRun, fixedVars>>

\* fetchTopRelays throws (the request failed): run catches and exits with 1.
fetchRelayDataThrows ==
    /\ pc = "start"
    /\ pc' = "failed"
    /\ UNCHANGED <<relaysByFingerprint, fingerprintList, relayData, batches, batchIndex,
                   results, summary, events, firstRun, fixedVars>>

\* updateContract up to its loop: throws when the signer is neither the owner
\* nor an authorized updater, batches the relays otherwise.
checkAuthorization ==
    /\ pc = "authorize"
    /\ IF ~authorizedUpdaters[signer] /\ signer # owner
       THEN /\ pc' = "failed"
            /\ UNCHANGED <<batches, batchIndex, results>>
       ELSE /\ pc' = "loop"
            /\ batches' = batchRelays(relayData, batchSize)
            /\ batchIndex' = 0
            /\ results' = <<>>
    /\ UNCHANGED <<relaysByFingerprint, fingerprintList, relayData, summary, events,
                   firstRun, fixedVars>>

\* Variant: the dry run sends the transaction all the same.
dryRunBatchSends ==
    /\ pc = "loop"
    /\ batchIndex < Len(batches)
    /\ dryRun
    /\ relaysByFingerprint' = Transaction(signer, batches[batchIndex + 1]).st.map
    /\ fingerprintList' = Transaction(signer, batches[batchIndex + 1]).st.list
    /\ results' = Append(results, UpdateResult(TRUE, Len(batches[batchIndex + 1]), ""))
    /\ batchIndex' = batchIndex + 1
    /\ UNCHANGED <<pc, relayData, batches, summary, events, firstRun, fixedVars>>

\* One iteration in dry-run mode.
dryRunBatch ==
    /\ pc = "loop"
    /\ batchIndex < Len(batches)
    /\ dryRun
    /\ results' = Append(results, UpdateResult(TRUE, Len(batches[batchIndex + 1]), ""))
    /\ batchIndex' = batchIndex + 1
    /\ UNCHANGED <<relaysByFingerprint, fingerprintList, pc, relayData, batches, summary,
                   events, firstRun, fixedVars>>

\* One iteration enters its try block: estimateGas, then the transaction.
sendBatch ==
    /\ pc = "loop"
    /\ batchIndex < Len(batches)
    /\ ~dryRun
    /\ pc' = "inflight"
    /\ events' = Append(events, Event("submit", batchIndex, ""))
    /\ UNCHANGED <<relaysByFingerprint, fingerprintList, relayData, batches, batchIndex,
                   results, summary, firstRun, fixedVars>>

\* Variant: the next iteration starts without the wait.
confirmBatchNoDelay ==
    /\ pc = "inflight"
    /\ Transaction(signer, batches[batchIndex + 1]).err = NoError
    /\ relaysByFingerprint' = Transaction(signer, batches[batchIndex + 1]).st.map
    /\ fingerprintList' = Transaction(signer, batches[batchIndex + 1]).st.list
    /\ results' = Append(results, UpdateResult(TRUE, Len(batches[batchIndex + 1]), ""))
    /\ events' = Append(events, Event("confirmed", batchIndex, ""))
    /\ pc' = "loop"
    /\ batchIndex' = batchIndex + 1
    /\ UNCHANGED <<relayData, batches, summary, firstRun, fixedVars>>

\* Variant: the transaction stores the first record of the batch only.
confirmBatchFirstRecordOnly ==
    /\ pc = "inflight"
    /\ Transaction(signer, batches[batchIndex + 1]).err = NoError
    /\ relaysByFingerprint' = Transaction(signer, SubSeq(batches[batchIndex + 1], 1, 1)).st.map
    /\ fingerprintList' = Transaction(signer, SubSeq(batches[batchIndex + 1], 1, 1)).st.list
    /\ results' = Append(results, UpdateResult(TRUE, Len(batches[batchIndex + 1]), ""))
    /\ events' = Append(events, Event("confirmed", batchIndex, ""))
    /\ IF batchIndex < Len(batches) - 1
       THEN pc' = "delay" /\ batchIndex' = batchIndex
       ELSE pc' = "loop" /\ batchIndex' = batchIndex + 1
    /\ UNCHANGED <<relayData, batches, summary, firstRun, fixedVars>>

\* estimateGas, batchUpdateRelays and tx.wait all return: the transaction is
\* mined and the batch recorded as a success; the wait of BATCH_DELAY follows
\* unless the batch is the last one.
confirmBatch ==
    /\ pc = "inflight"
    /\ Transaction(signer, batches[batchIndex + 1]).err = NoError
    /\ relaysByFingerprint' = Transaction(signer, batches[batchIndex + 1]).st.map
    /\ fingerprintList' = Transaction(signer, batches[batchIndex + 1]).st.list
    /\ results' = Append(results, UpdateResult(TRUE, Len(batches[batchIndex + 1]), ""))
    /\ events' = Append(events, Event("confirmed", batchIndex, ""))
    /\ IF batchIndex < Len(batches) - 1
       THEN pc' = "delay" /\ batchIndex' = batchIndex
       ELSE pc' = "loop" /\ batchIndex' = batchIndex + 1
    /\ UNCHANGED <<relayData, batches, summary, firstRun, fixedVars>>

\* The wait of BATCH_DELAY is over: the next iteration.
batchDelay ==
    /\ pc = "delay"
    /\ events' = Append(events, Event("delay", batchIndex, ""))
    /\ batchIndex' = batchIndex + 1
    /\ pc' = "loop"
    /\ UNCHANGED <<relaysByFingerprint, fingerprintList, relayData, batches, results,
                   summary, firstRun, fixedVars>>

\* Variant: the first error ends the loop.
catchBatchErrorBreak(message) ==
    /\ pc = "inflight"
    /\ \/ message \in TransientMessages
       \/ message # NoError /\ message = Transaction(signer, batches[batchIndex + 1]).err
    /\ results' = Append(results, UpdateResult(FALSE, 0, message))
    /\ events' = events \o <<Event("failed", batchIndex, message)>>
                        \o IF IsNonceError(message) THEN <<Event("wait", batchIndex, "")>>
                           ELSE <<>>
    /\ batchIndex' = Len(batches)
    /\ pc' = "loop"
    /\ UNCHANGED <<relaysByFingerprint, fingerprintList, relayData, batches, summary,
                   firstRun, fixedVars>>

\* The catch block: a call of the try block threw, for a reason of the RPC
\* endpoint or because the contract reverts.  Nothing is written; after a
\* wait of 3 s for a nonce error the batch is recorded as failed and the loop
\* goes on.
catchBatchError(message) ==
    /\ pc = "inflight"
    /\ \/ message \in TransientMessages
       \/ message # NoError /\ message = Transaction(signer, batches[batchIndex + 1]).err
    /\ results' = Append(results, UpdateResult(FALSE, 0, message))
    /\ events' = events \o <<Event("failed", batchIndex, message)>>
                        \o IF IsNonceError(message) THEN <<Event("wait", batchIndex, "")>>
                           ELSE <<>>
    /\ batchIndex' = batchIndex + 1
    /\ pc' = "loop"
    /\ UNCHANGED <<relaysByFingerprint, fingerprintList, relayData, batches, summary,
                   firstRun, fixedVars>>

\* The loop is over and updateContract returns, but a read of verifyUpdate
\* (getRelayCount, getFingerprintByIndex, getRelay over RPC) throws: run
\* catches it, reports "Update failed" and exits with status 1.
verifyUpdateThrows ==
    /\ pc = "loop"
    /\ ~(batchIndex < Len(batches))
    /\ ~dryRun
    /\ events' = Append(events, Event("verifyFailed", batchIndex, "read failed"))
    /\ pc' = "failed"
    /\ UNCHANGED <<relaysByFingerprint, fingerprintList, relayData, batches, batchIndex,
                   results, summary, firstRun, fixedVars>>

\* The loop is over: updateContract returns, verifyUpdate reads the contract
\* and run prints the summary.
printSummary ==
    /\ pc = "loop"
    /\ ~(batchIndex < Len(batches))
    /\ summary' = << [successful |-> CountSuccess(results),
                      failed |-> CountFailed(results),
                      totalRelaysUpdated |-> SumRelaysUpdated(results)] >>
    /\ pc' = "done"
    /\ UNCHANGED <<relaysByFingerprint, fingerprintList, relayData, batches, batchIndex,
                   results, events, firstRun, fixedVars>>

\* The script is started a second time, on the same feed and configuration.
runAgain ==
    /\ pc = "done"
    /\ ~firstRun.ended
    /\ firstRun' = [ended |-> TRUE, successful |-> CountSuccess(results),
                    failed |-> CountFailed(results), relayData |-> relayData,
                    map |-> relaysByFingerprint, list |-> fingerprintList]
    /\ pc' = "start"
    /\ relayData' = <<>>
    /\ batches' = <<>>
    /\ batchIndex' = 0
    /\ results' = <<>>
    /\ summary' = <<>>
    /\ events' = <<>>
    /\ UNCHANGED <<relaysByFingerprint, fingerprintList, fixedVars>>

\* ------------------------------------------------------------ frontend

\* Home (web/app/page.tsx).  The page reads the contract; a search makes it
\* fetch every relay, batch after batch, into cacheData.

CACHE_TTL_MS == 5 * 60 * 1000

\* const batchSize = 50 of fetchAllRelaysProgressively, scaled.
SweepBatch == 2
\* The clock of the browser is read at multiples of CACHE_TTL_MS, up to this many.
MaxDate == 2
\* The calls of fetchAllRelaysProgressively a behaviour starts, at most.
MaxSweeps == 2

\* What the user types into the search box: nothing, a string that matches
\* nicknames, a string that matches nothing.
Queries == {"", "relay", "zzz"}

\* The messages of the errors readContract throws.
ReadErrors == {"429 rate limit exceeded", "request timed out"}

\* error.message?.includes('rate limit') || error.message?.includes('429')
IsRateLimit(message) == message = "429 rate limit exceeded"

\* Math.pow(2, retries) * 1000
BackoffDelay(retries) == (2 ^ retries) * 1000

\* Math.ceil(total / batchSize)
CeilDiv(total, size) == (total + size - 1) \div size

\* Math.round(((i + 1) / batches) * 100)
Progress(i, n) == ((i + 1) * 200 + n) \div (2 * n)

\* The locals of one call of fetchAllRelaysProgressively: total, batches,
\* the loop variable i, retries, allRelays, where the call is ("read": at
\* readContract, "backoff": in the wait after a rate limit, "pause": in the
\* 500 ms after a batch), and, as history, the waits of the current batch.
Sweep(total) ==
    [total |-> total, batches |-> CeilDiv(total, SweepBatch), i |-> 0, retries |-> 0,
     allRelays |-> <<>>, pc |-> "read", delays |-> <<>>]

\* The sequence without its k-th element.
Without(seq, k) == SubSeq(seq, 1, k - 1) \o SubSeq(seq, k + 1, Len(seq))

\* searchQuery && cacheData && cacheData.relays.length > 0: dataSource is
\* cacheData.relays, not the page read by useRelaysPaginated.
UsesCache == searchQuery # "" /\ cacheData # <<>> /\ Len(cacheData[1].relays) > 0

\* The contract the page reads: the relays of a feed, uploaded.
Uploaded == transformRelays(<<OnionA, OnionB, OnionC>>, 0)

\* PAGE_SIZE, scaled.
PageSize == 3

\* Array.isArray(relays) ? relays : [], for the first page (page = 0).
relayArray ==
    LET read == getRelaysPaginated(0 * PageSize, PageSize)
    IN  IF read.ok THEN read.value ELSE <<>>

\* const dataSource
dataSource == IF UsesCache THEN cacheData[1].relays ELSE relayArray

\* [...dataSource].sort((a, b) => Number(b.uptime) - Number(a.uptime))
sortedRelays == ArraySort(dataSource, "uptime", TRUE)

\* str.toLowerCase().includes(query), on the strings of the records, for the
\* queries of Queries in lower case.
LowerIncludes(str, query) ==
    \/ query = ""
    \/ query = "relay" /\ str \in {"Relay1", "Relay3", "Relay4", "Relay5"}

\* const filteredRelays
filteredRelays ==
    SelectSeq(sortedRelays,
              LAMBDA relay :
                  \/ searchQuery = ""
                  \/ LowerIncludes(relay.fingerprint, searchQuery)
                  \/ LowerIncludes(relay.nickname, searchQuery)
                  \/ LowerIncludes(relay.country, searchQuery))

InitFrontend ==
    /\ owner = Deployer
    /\ authorizedUpdaters = [a \in Address |-> FALSE]
    /\ \E n \in 0 .. Len(Uploaded) :
          /\ fingerprintList = [k \in 1 .. n |-> Uploaded[k].fingerprint]
          /\ relaysByFingerprint =
                [fp \in FeedFingerprints |->
                    IF \E k \in 1 .. n : Uploaded[k].fingerprint = fp
                    THEN Uploaded[CHOOSE k \in 1 .. n : Uploaded[k].fingerprint = fp]
                    ELSE ZeroRelay]
    /\ now = 0
    /\ last = Idle
    /\ previous = <<>>
    /\ grant = [a \in Address |-> "never"]
    /\ formerOwner = ZeroAddress
    /\ everWritten = {}
    /\ pc = "off"
    /\ feed = <<>>
    /\ batchSize = 1
    /\ dryRun = FALSE
    /\ signer = ZeroAddress
    /\ relayData = <<>>
    /\ batches = <<>>
    /\ batchIndex = 0
    /\ results = <<>>
    /\ summary = <<>>
    /\ events = <<>>
    /\ firstRun = NoRun
    /\ NoTransformerCall
    /\ date = 0
    /\ searchQuery = ""
    /\ cacheData = <<>>
    /\ isLoadingAll = FALSE
    /\ loadingProgress = 0
    /\ sweeps = <<>>
    /\ started = 0

\* The finally block of fetchAllRelaysProgressively: the call k is over.
Finally(k) ==
    /\ isLoadingAll' = FALSE
    /\ loadingProgress' = 100
    /\ sweeps' = Without(sweeps, k)

\* onChange of the search box, and the effect on [searchQuery] that follows
\* the render: fetchAllRelaysProgressively is called when the query is not
\* empty, the cache is null or empty and no fetch is marked as running; it
\* returns at once when the count is 0.
typeQuery(q) ==
    /\ q # searchQuery
    /\ searchQuery' = q
    /\ IF /\ q # ""
          /\ cacheData = <<>> \/ Len(cacheData[1].relays) = 0
          /\ ~isLoadingAll
          /\ getRelayCount # 0
       THEN /\ started < MaxSweeps
            /\ isLoadingAll' = TRUE
            /\ loadingProgress' = 0
            /\ sweeps' = Append(sweeps, Sweep(getRelayCount))
            /\ started' = started + 1
       ELSE UNCHANGED <<isLoadingAll, loadingProgress, sweeps, started>>
    /\ UNCHANGED <<date, cacheData, contractVars, pipelineVars>>

\* onClick of the button in the search box.
clearSearch ==
    /\ searchQuery # ""
    /\ searchQuery' = ""
    /\ cacheData' = <<>>
    /\ isLoadingAll' = FALSE
    /\ loadingProgress' = 0
    /\ UNCHANGED <<date, sweeps, started, contractVars, pipelineVars>>

\* Variant: every batch is read from offset 0.
readBatchFromTheStart(k) ==
    LET s == sweeps[k]
        offset == 0
        limit == Min(SweepBatch, s.total - s.i * SweepBatch)
        batchData == getRelaysPaginated(offset, limit)
    IN  /\ s.pc = "read"
        /\ batchData.ok
        /\ cacheData' = << [relays |-> s.allRelays \o batchData.value, timestamp |-> date] >>
        /\ loadingProgress' = Progress(s.i, s.batches)
        /\ sweeps' = [sweeps EXCEPT ![k] = [s EXCEPT !.allRelays = s.allRelays \o batchData.value,
                                                     !.pc = "pause"]]
        /\ UNCHANGED <<date, searchQuery, isLoadingAll, started, contractVars, pipelineVars>>

\* readContract of the call k returns the batch: it is appended, the cache is
\* set with the time of the browser, and the wait of 500 ms starts.
readBatch(k) ==
    LET s == sweeps[k]
        offset == s.i * SweepBatch
        limit == Min(SweepBatch, s.total - offset)
        batchData == getRelaysPaginated(offset, limit)
    IN  /\ s.pc = "read"
        /\ batchData.ok
        /\ cacheData' = << [relays |-> s.allRelays \o batchData.value, timestamp |-> date] >>
        /\ loadingProgress' = Progress(s.i, s.batches)
        /\ sweeps' = [sweeps EXCEPT ![k] = [s EXCEPT !.allRelays = s.allRelays \o batchData.value,
                                                     !.pc = "pause"]]
        /\ UNCHANGED <<date, searchQuery, isLoadingAll, started, contractVars, pipelineVars>>

\* readContract of the call k throws: after a rate limit the call waits
\* 2^retries seconds; any other error is thrown on, to the catch and the
\* finally of the function.
readBatchThrows(k, message) ==
    LET s == sweeps[k]
    IN  /\ s.pc = "read"
        /\ IF IsRateLimit(message)
           THEN /\ sweeps' = [sweeps EXCEPT ![k] =
                                 [s EXCEPT !.retries = s.retries + 1,
                                           !.delays = Append(s.delays, BackoffDelay(s.retries + 1)),
                                           !.pc = "backoff"]]
                /\ UNCHANGED <<isLoadingAll, loadingProgress>>
           ELSE Finally(k)
        /\ UNCHANGED <<date, searchQuery, cacheData, started, contractVars, pipelineVars>>

\* The wait after a rate limit is over: the next attempt while retries < 5,
\* the break and the finally after that.
backoffOver(k) ==
    LET s == sweeps[k]
    IN  /\ s.pc = "backoff"
        /\ IF s.retries < 5
           THEN /\ sweeps' = [sweeps EXCEPT ![k] = [s EXCEPT !.pc = "read"]]
                /\ UNCHANGED <<isLoadingAll, loadingProgress>>
           ELSE Finally(k)
        /\ UNCHANGED <<date, searchQuery, cacheData, started, contractVars, pipelineVars>>

\* The 500 ms after a batch are over: the next batch, or the end of the loop
\* and the finally.
pauseOver(k) ==
    LET s == sweeps[k]
    IN  /\ s.pc = "pause"
        /\ IF s.i + 1 < s.batches
           THEN /\ sweeps' = [sweeps EXCEPT ![k] = [s EXCEPT !.i = s.i + 1, !.retries = 0,
                                                             !.delays = <<>>, !.pc = "read"]]
                /\ UNCHANGED <<isLoadingAll, loadingProgress>>
           ELSE Finally(k)
        /\ UNCHANGED <<date, searchQuery, cacheData, started, contractVars, pipelineVars>>

\* Time passes in the browser.
TickBrowser ==
    /\ date < MaxDate * CACHE_TTL_MS
    /\ date' = date + CACHE_TTL_MS
    /\ UNCHANGED <<searchQuery, cacheData, isLoadingAll, loadingProgress, sweeps, started,
                   contractVars, pipelineVars>>

\* ------------------------------------------------------------ specification

Next ==
    \/ \E sender \in Accounts, newOwner \in Address : transferOwnership(sender, newOwner)
    \/ \E sender \in Accounts, updater \in Address : addAuthorizedUpdater(sender, updater)
    \/ \E sender \in Accounts, updater \in Address : removeAuthorizedUpdater(sender, updater)
    \/ \E sender \in Accounts, relay \in Relays : updateRelay(sender, relay)
    \/ \E sender \in Accounts, relays \in Batches : batchUpdateRelays(sender, relays)
    \/ Return
    \/ Tick

Spec == Init /\ [][Next]_vars

NextPipeline ==
    \/ fetchRelayData
    \/ fetchRelayDataThrows
    \/ checkAuthorization
    \/ dryRunBatch
    \/ sendBatch
    \/ confirmBatch
    \/ \E message \in TransientMessages \cup ValidationErrors : catchBatchError(message)
    \/ batchDelay
    \/ verifyUpdateThrows
    \/ printSummary
    \/ runAgain
    \/ Tick

SpecPipeline == InitPipeline /\ [][NextPipeline]_vars

\* A run on a feed of two relays that sends transactions, while the accounts
\* send administrative transactions about the signer and the owner hands the
\* contract over.  The chain orders all of them: each step is one
\* transaction, or one step of the script.
InitInterleaved == InitPipeline /\ ~dryRun /\ Len(feed) = 2

NextInterleaved ==
    \/ fetchRelayData
    \/ fetchRelayDataThrows
    \/ checkAuthorization
    \/ sendBatch
    \/ confirmBatch
    \/ \E message \in TransientMessages \cup ValidationErrors \cup {ErrOnlyAuthorized} :
          catchBatchError(message)
    \/ batchDelay
    \/ verifyUpdateThrows
    \/ printSummary
    \/ \E newOwner \in Accounts : transferOwnership(owner, newOwner)
    \/ \E sender \in Accounts : addAuthorizedUpdater(sender, signer)
    \/ \E sender \in Accounts : removeAuthorizedUpdater(sender, signer)
    \/ Return

SpecInterleaved == InitInterleaved /\ [][NextInterleaved]_vars

\* The transformer on its own: fetchRelayData applied to each feed of
\* TransformerFeeds, at each clock value.  Nothing is uploaded.
InitTransformer ==
    /\ owner = Deployer
    /\ authorizedUpdaters = [a \in Address |-> FALSE]
    /\ relaysByFingerprint = [fp \in FeedFingerprints |-> ZeroRelay]
    /\ fingerprintList = <<>>
    /\ now \in 0 .. MaxTime
    /\ last = Idle
    /\ previous = <<>>
    /\ grant = [a \in Address |-> "never"]
    /\ formerOwner = ZeroAddress
    /\ everWritten = {}
    /\ pc = "start"
    /\ feed \in TransformerFeeds
    /\ batchSize = 1
    /\ dryRun = TRUE
    /\ signer = Deployer
    /\ relayData = <<>>
    /\ batches = <<>>
    /\ batchIndex = 0
    /\ results = <<>>
    /\ summary = <<>>
    /\ events = <<>>
    /\ firstRun = NoRun
    /\ NoFrontend
    /\ NoTransformerCall

NextTransformer ==
    \/ fetchRelayData
    \/ Tick

SpecTransformer == InitTransformer /\ [][NextTransformer]_vars

\* ------------------------------------------------------------ sortRelays, called on its own

\* The longest array sortRelays is tried on.
MaxSort == 3

\* The records sortRelays is tried on: in every field two of them agree.
TieA == RelayData(FpA, "Relay1", <<>>, 900, 1, 7, "US", "AS0", 0, TRUE)
TieB == RelayData(FpB, "Relay3", <<"Fast">>, 900, 5, 2, "DE", "AS0", 1, FALSE)
TieC == RelayData(FpC, "Relay1", <<>>, 0, 1, 7, "US", "AS1234", 0, TRUE)
TieD == RelayData(FpA, "Relay3", <<>>, 1000, 5, 9, "DE", "AS1234", 1, TRUE)

\* keyof RelayData, as far as sortRelays tells one from another: the number
\* fields, the string fields, and one that is neither.
SortFields == NumberFields \cup StringFields \cup {"running"}

\* Before a call sortRelays(relayData, sortBy[, descending]).
InitSort ==
    /\ owner = Deployer
    /\ authorizedUpdaters = [a \in Address |-> FALSE]
    /\ relaysByFingerprint = [fp \in FeedFingerprints |-> ZeroRelay]
    /\ fingerprintList = <<>>
    /\ now = 0
    /\ last = Idle
    /\ previous = <<>>
    /\ grant = [a \in Address |-> "never"]
    /\ formerOwner = ZeroAddress
    /\ everWritten = {}
    /\ pc = "sort"
    /\ feed = <<>>
    /\ batchSize = 1
    /\ dryRun = TRUE
    /\ signer = Deployer
    /\ relayData \in SeqsUpTo({TieA, TieB, TieC, TieD}, MaxSort)
    /\ batches = <<>>
    /\ batchIndex = 0
    /\ results = <<>>
    /\ summary = <<>>
    /\ events = <<>>
    /\ firstRun = NoRun
    /\ sortBy \in SortFields
    /\ descending \in {<<>>, <<TRUE>>, <<FALSE>>}
    /\ sorted = <<>>
    /\ batchStart = 0
    /\ NoFrontend

\* The call returns.
callSortRelays ==
    /\ pc = "sort"
    /\ sorted' = sortRelays(relayData, sortBy, descending)
    /\ pc' = "sorted"
    /\ UNCHANGED <<contractVars, frontendVars, feed, batchSize, dryRun, signer, relayData,
                   batches, batchIndex, results, summary, events, firstRun, sortBy,
                   descending, batchStart>>

NextSort == callSortRelays

SpecSort == InitSort /\ [][NextSort]_vars

\* ------------------------------------------------------------ batchRelays, called on its own

\* The longest array batchRelays is tried on, and the largest BATCH_SIZE.
MaxChunked == 4
MaxChunk == 3

\* parseInt(process.env.BATCH_SIZE || "10"): any integer, not validated.
ChunkSizes == -1 .. MaxChunk

\* The number of arrays the heap of the process has room for: more than any
\* loop that ends pushes.
HeapLimit == MaxChunked + 2

\* Variant: slice takes everything from start on.
SliceToTheEnd(array, start, end) ==
    LET from == IF start < 0 THEN (IF Len(array) + start < 0 THEN 0 ELSE Len(array) + start)
                ELSE Min(start, Len(array))
    IN  SubSeq(array, from + 1, Len(array))

\* Array.prototype.slice(start, end): a negative index counts from the end,
\* an index beyond the length is the length, and the result is empty when
\* start is not before end.
Slice(array, start, end) ==
    LET from == IF start < 0 THEN (IF Len(array) + start < 0 THEN 0 ELSE Len(array) + start)
                ELSE Min(start, Len(array))
        to == IF end < 0 THEN (IF Len(array) + end < 0 THEN 0 ELSE Len(array) + end)
              ELSE Min(end, Len(array))
    IN  SubSeq(array, from + 1, to)

\* Before a call batchRelays(relayData, batchSize).
InitBatch ==
    /\ owner = Deployer
    /\ authorizedUpdaters = [a \in Address |-> FALSE]
    /\ relaysByFingerprint = [fp \in FeedFingerprints |-> ZeroRelay]
    /\ fingerprintList = <<>>
    /\ now = 0
    /\ last = Idle
    /\ previous = <<>>
    /\ grant = [a \in Address |-> "never"]
    /\ formerOwner = ZeroAddress
    /\ everWritten = {}
    /\ pc = "batch"
    /\ feed = <<>>
    /\ batchSize \in ChunkSizes
    /\ dryRun = TRUE
    /\ signer = Deployer
    /\ relayData \in SeqsUpTo({TieA, TieB}, MaxChunked)
    /\ batches = <<>>
    /\ batchIndex = 0
    /\ results = <<>>
    /\ summary = <<>>
    /\ events = <<>>
    /\ firstRun = NoRun
    /\ sortBy = ""
    /\ descending = <<>>
    /\ sorted = <<>>
    /\ batchStart = 0
    /\ NoFrontend

\* One turn of the loop: i < relays.length, the slice is pushed, i += batchSize.
batchPush ==
    /\ pc = "batch"
    /\ batchStart < Len(relayData)
    /\ Len(batches) < HeapLimit
    /\ batches' = Append(batches, Slice(relayData, batchStart, batchStart + batchSize))
    /\ batchStart' = batchStart + batchSize
    /\ UNCHANGED <<contractVars, frontendVars, pc, feed, batchSize, dryRun, signer,
                   relayData, batchIndex, results, summary, events, firstRun, sortBy,
                   descending, sorted>>

\* The loop goes on and the heap is full: the process is aborted.
batchOutOfMemory ==
    /\ pc = "batch"
    /\ batchStart < Len(relayData)
    /\ Len(batches) = HeapLimit
    /\ pc' = "aborted"
    /\ UNCHANGED <<contractVars, frontendVars, feed, batchSize, dryRun, signer, relayData,
                   batches, batchIndex, results, summary, events, firstRun,
                   transformerVars>>

\* The loop ends and batchRelays returns.
batchReturn ==
    /\ pc = "batch"
    /\ ~(batchStart < Len(relayData))
    /\ pc' = "batched"
    /\ UNCHANGED <<contractVars, frontendVars, feed, batchSize, dryRun, signer, relayData,
                   batches, batchIndex, results, summary, events, firstRun,
                   transformerVars>>

NextBatch ==
    \/ batchPush
    \/ batchOutOfMemory
    \/ batchReturn

SpecBatch == InitBatch /\ [][NextBatch]_vars

\* The loop is synchronous code: whatever step is next is taken.
FairBatch == WF_vars(batchPush) /\ WF_vars(batchOutOfMemory) /\ WF_vars(batchReturn)

SpecBatchFair == InitBatch /\ [][NextBatch]_vars /\ FairBatch

NextFrontend ==
    \/ \E q \in Queries : typeQuery(q)
    \/ clearSearch
    \/ \E k \in 1 .. Len(sweeps) : readBatch(k)
    \/ \E k \in 1 .. Len(sweeps), message \in ReadErrors : readBatchThrows(k, message)
    \/ \E k \in 1 .. Len(sweeps) : backoffOver(k)
    \/ \E k \in 1 .. Len(sweeps) : pauseOver(k)
    \/ TickBrowser

SpecFrontend == InitFrontend /\ [][NextFrontend]_vars

\* What the scheduling of a run guarantees.  run is one async function: a
\* step of its own is taken once the promise it awaits settles.  The request
\* of the feed settles, with an answer or with the expiry of the 30 s timeout
\* of the Onionoo client; the reads of the contract and the sending of a
\* transaction are taken to settle, and a timer fires.  tx.wait() is called
\* without a timeout: nothing makes it settle, so neither confirmBatch nor
\* catchBatchError is fair.
FairPipeline ==
    /\ WF_vars(fetchRelayData \/ fetchRelayDataThrows)
    /\ WF_vars(checkAuthorization)
    /\ WF_vars(dryRunBatch)
    /\ WF_vars(sendBatch)
    /\ WF_vars(batchDelay)
    /\ WF_vars(printSummary \/ verifyUpdateThrows)

SpecPipelineFair == InitPipeline /\ [][NextPipeline]_vars /\ FairPipeline

\* ------------------------------------------------------------ properties

Range(seq) == {seq[i] : i \in 1 .. Len(seq)}

IsWrite(c) == c.op \in {"updateRelay", "batchUpdateRelays"}

IsAdmin(c) == c.op \in {"transferOwnership", "addAuthorizedUpdater", "removeAuthorizedUpdater"}

\* A record breaks a record invariant of the data model, at clock value ts.
Violates(r, ts) ==
    \/ Len(r.fingerprint) # 40
    \/ r.uptime > 1000
    \/ Len(r.country) # 2
    \/ r.nickname = ""
    \/ r.lastSeen > ts

SomeViolates(relays, ts) == \E i \in 1 .. Len(relays) : Violates(relays[i], ts)

\* C1 (batch atomicity): a batchUpdateRelays by an authorized caller whose
\* batch holds a record that breaks a record invariant, at any position,
\* fails with a validation reason and writes nothing: the count, the
\* fingerprint list and every stored record are as before the call, also for
\* the valid records that precede the invalid one.
C1_BatchAtomicity ==
    [][ ( /\ last = Idle
          /\ last'.op = "batchUpdateRelays"
          /\ onlyAuthorized(last'.sender)
          /\ SomeViolates(last'.relays, now) )
        => ( /\ ~last'.ok
             /\ last'.err \in ValidationErrors
             /\ getRelayCount' = getRelayCount
             /\ fingerprintList' = fingerprintList
             /\ relaysByFingerprint' = relaysByFingerprint ) ]_vars

\* A rejected batch whose first record is valid and new and whose second is
\* invalid: the first record's write had to be undone.
C1_Witness ==
    /\ last.op = "batchUpdateRelays"
    /\ ~last.ok
    /\ last.err \in ValidationErrors
    /\ Len(last.relays) >= 2
    /\ ~Violates(last.relays[1], now)
    /\ Violates(last.relays[2], now)
    /\ ~relayExists(last.relays[1].fingerprint)

\* C2: an updateRelay of a record that breaks a record invariant, and a
\* batchUpdateRelays holding one, fail for every caller and change nothing:
\* count, fingerprint list, stored records, owner and updater set.
C2_InvalidRejected ==
    [][ ( /\ last = Idle
          /\ IsWrite(last')
          /\ SomeViolates(last'.relays, now) )
        => ( /\ ~last'.ok
             /\ getRelayCount' = getRelayCount
             /\ storage' = storage ) ]_vars

\* An authorized updateRelay rejected for a lastSeen in the future, on a store
\* that holds records.
C2_Witness ==
    /\ last.op = "updateRelay"
    /\ ~last.ok
    /\ last.err = ErrLastSeen
    /\ last.relays[1].lastSeen > now
    /\ onlyAuthorized(last.sender)
    /\ getRelayCount > 0

\* C3: a caller that is neither the owner nor an authorized updater fails
\* every updateRelay and batchUpdateRelays with the authorization reason and
\* changes nothing; an account named by a successful addAuthorizedUpdater
\* (and not removed since) succeeds at every write of valid records.
C3_Authorization ==
    [][ /\ ( ( /\ last = Idle
               /\ IsWrite(last')
               /\ last'.sender # owner
               /\ ~authorizedUpdaters[last'.sender] )
             => ( /\ ~last'.ok
                  /\ last'.err = ErrOnlyAuthorized
                  /\ storage' = storage ) )
        /\ ( ( /\ last = Idle
               /\ IsWrite(last')
               /\ grant[last'.sender] = "added"
               /\ ~SomeViolates(last'.relays, now) )
             => last'.ok ) ]_vars

\* An added updater that is not the owner has written a non-empty batch.
C3_Witness ==
    /\ last.op = "batchUpdateRelays"
    /\ last.ok
    /\ Len(last.relays) > 0
    /\ last.sender # owner
    /\ grant[last.sender] = "added"

\* C4 as stated: once removeAuthorizedUpdater(owner, X) has succeeded and X
\* has not been added again, every updateRelay and batchUpdateRelays by X
\* fails.
C4_Original ==
    [][ ( /\ last = Idle
          /\ IsWrite(last')
          /\ grant[last'.sender] = "removed" )
        => ~last'.ok ]_vars

\* C4, amended: once removeAuthorizedUpdater(owner, X) has succeeded and X has
\* not been added again, every updateRelay and batchUpdateRelays by X fails
\* with the authorization reason and changes nothing, as long as X is not the
\* owner.
C4_RemovedUpdaterFails ==
    [][ ( /\ last = Idle
          /\ IsWrite(last')
          /\ grant[last'.sender] = "removed"
          /\ last'.sender # owner )
        => ( /\ ~last'.ok
             /\ last'.err = ErrOnlyAuthorized
             /\ storage' = storage ) ]_vars

\* A removed updater's write of valid records has been rejected.
C4_Witness ==
    /\ IsWrite(last)
    /\ ~last.ok
    /\ last.err = ErrOnlyAuthorized
    /\ grant[last.sender] = "removed"
    /\ Len(last.relays) > 0
    /\ ~SomeViolates(last.relays, now)

\* Administrative calls by anyone but the owner, authorized updaters
\* included, fail with the owner-only reason and change nothing; a successful
\* transferOwnership(owner, N) makes N the owner.
OnlyOwnerAdministers ==
    /\ ( ( /\ last = Idle
           /\ IsAdmin(last')
           /\ last'.sender # owner )
         => ( /\ ~last'.ok
              /\ last'.err = ErrOnlyOwner
              /\ storage' = storage ) )
    /\ ( ( /\ last = Idle
           /\ last'.op = "transferOwnership"
           /\ last'.ok )
         => ( /\ last'.sender = owner
              /\ owner' = last'.target ) )

\* C5 as stated: only the owner administers, a transfer makes N the owner,
\* and after it the administrative calls of the previous owner (the one that
\* made the latest transfer) fail.
C5_Original ==
    [][ /\ OnlyOwnerAdministers
        /\ ( ( /\ last = Idle
               /\ IsAdmin(last')
               /\ formerOwner # ZeroAddress
               /\ last'.sender = formerOwner )
             => ~last'.ok ) ]_vars

\* C5, amended: only the owner administers, a transfer makes N the owner, and
\* after it the administrative calls of the previous owner fail unless the
\* transfer named the previous owner itself.
C5_OwnerAdministers ==
    [][ /\ OnlyOwnerAdministers
        /\ ( ( /\ last = Idle
               /\ IsAdmin(last')
               /\ formerOwner # ZeroAddress
               /\ last'.sender = formerOwner
               /\ formerOwner # owner )
             => ( /\ ~last'.ok
                  /\ last'.err = ErrOnlyOwner
                  /\ storage' = storage ) ) ]_vars

\* The previous owner, still an authorized updater, has had an
\* administrative call rejected.
C5_Witness ==
    /\ IsAdmin(last)
    /\ ~last.ok
    /\ last.err = ErrOnlyOwner
    /\ last.sender = formerOwner
    /\ authorizedUpdaters[last.sender]

\* Record i is the last one of the call with its fingerprint.
LastOccurrence(relays, i) ==
    \A j \in (i + 1) .. Len(relays) : relays[j].fingerprint # relays[i].fingerprint

\* C6 (round trip): after a successful updateRelay of r, or a successful
\* batchUpdateRelays holding r as the last record with its fingerprint,
\* getRelay(r.fingerprint) returns r, equal in every field, flags included.
C6_RoundTrip ==
    (IsWrite(last) /\ last.ok) =>
        \A i \in 1 .. Len(last.relays) :
            LastOccurrence(last.relays, i) =>
                getRelay(last.relays[i].fingerprint) =
                    [ok |-> TRUE, err |-> NoError, value |-> last.relays[i]]

\* A successful batch that holds one fingerprint twice with different values,
\* one of them with two flags.
C6_Witness ==
    /\ last.op = "batchUpdateRelays"
    /\ last.ok
    /\ \E i, j \in 1 .. Len(last.relays) :
          /\ i < j
          /\ last.relays[i].fingerprint = last.relays[j].fingerprint
          /\ last.relays[i] # last.relays[j]
          /\ Len(last.relays[i].flags) = 2

\* C7 (idempotence): a successful updateRelay of the record that the latest
\* successful write also wrote leaves count, fingerprint list and stored
\* records as the first application left them.
C7_Idempotent ==
    [][ ( /\ last = Idle
          /\ last'.op = "updateRelay"
          /\ last'.ok
          /\ last'.relays = previous )
        => ( /\ getRelayCount' = getRelayCount
             /\ fingerprintList' = fingerprintList
             /\ relaysByFingerprint' = relaysByFingerprint ) ]_vars

\* The same record has been applied twice in a row.
C7_Witness ==
    /\ last.op = "updateRelay"
    /\ last.ok
    /\ last.relays = previous

\* The positions of fingerprint fp in a list.
Positions(list, fp) == {i \in 1 .. Len(list) : list[i] = fp}

\* C8 (replace on write): a successful write of r2 to a fingerprint that is
\* already stored leaves the stored value equal to r2 in every field, and the
\* fingerprint's index position unchanged; when every record of the call
\* addresses a stored fingerprint the count is unchanged too.
C8_ReplaceOnWrite ==
    [][ ( /\ last = Idle
          /\ IsWrite(last')
          /\ last'.ok )
        => /\ \A i \in 1 .. Len(last'.relays) :
                LET r2 == last'.relays[i]
                IN  (relayExists(r2.fingerprint) /\ LastOccurrence(last'.relays, i)) =>
                        /\ relaysByFingerprint'[r2.fingerprint] = r2
                        /\ Positions(fingerprintList', r2.fingerprint)
                               = Positions(fingerprintList, r2.fingerprint)
           /\ (\A i \in 1 .. Len(last'.relays) : relayExists(last'.relays[i].fingerprint))
                  => getRelayCount' = getRelayCount ]_vars

\* A record with one flag has replaced a record with two flags under the
\* same fingerprint.
C8_Witness ==
    /\ last.op = "updateRelay"
    /\ last.ok
    /\ previous # <<>>
    /\ previous[1].fingerprint = last.relays[1].fingerprint
    /\ Len(previous[1].flags) > Len(last.relays[1].flags)
    /\ getRelay(last.relays[1].fingerprint).value = last.relays[1]

\* C9: the fingerprint list holds no fingerprint twice; relayExists(fp) is
\* true exactly when fp is in the list and exactly when getRelay(fp)
\* succeeds (it fails with the not-found reason otherwise); the count is the
\* number of distinct fingerprints ever successfully written.
C9_IndexAgreesWithRecords ==
    /\ \A i, j \in 1 .. Len(fingerprintList) :
          fingerprintList[i] = fingerprintList[j] => i = j
    /\ \A fp \in Fingerprints \cup {""} :
          /\ relayExists(fp) <=> fp \in Range(fingerprintList)
          /\ relayExists(fp) <=> getRelay(fp).ok
          /\ ~relayExists(fp) => getRelay(fp).err = ErrNotFound
    /\ Range(fingerprintList) = everWritten
    /\ getRelayCount = Cardinality(everWritten)

\* Two fingerprints are stored and the latest write rewrote one of them.
C9_Witness ==
    /\ Cardinality(everWritten) = 2
    /\ IsWrite(last)
    /\ last.ok
    /\ previous # <<>>
    /\ previous[1].fingerprint = last.relays[1].fingerprint

\* C10: every stored record satisfies the record invariants and is stored
\* under its own fingerprint: every record of a successful write satisfies
\* them at the block.timestamp of the write, and every stored record at the
\* current block.timestamp (which never decreases).
C10_StoredRecordsValid ==
    /\ (IsWrite(last) /\ last.ok) =>
           \A i \in 1 .. Len(last.relays) : ~Violates(last.relays[i], now)
    /\ \A fp \in DOMAIN relaysByFingerprint :
           relaysByFingerprint[fp] # ZeroRelay =>
               /\ ~Violates(relaysByFingerprint[fp], now)
               /\ relaysByFingerprint[fp].fingerprint = fp

\* A successful write has just stored a record whose lastSeen is the
\* block.timestamp of the write, beside a record of another fingerprint.
C10_Witness ==
    /\ IsWrite(last)
    /\ last.ok
    /\ relayExists(FpA)
    /\ relayExists(FpB)
    /\ now > 0
    /\ \E i \in 1 .. Len(last.relays) :
          /\ last.relays[i].lastSeen = now
          /\ relaysByFingerprint[last.relays[i].fingerprint] = last.relays[i]

\* C11 (never deleted, append-only index): in every step the count does not
\* decrease, a fingerprint for which relayExists was true stays existing, and
\* getFingerprintByIndex(i) returns for every i below the count the
\* fingerprint it returned before the step (hence forever after).
C11_AppendOnly ==
    [][ /\ getRelayCount' >= getRelayCount
        /\ \A fp \in Fingerprints : relayExists(fp) => relayExists(fp)'
        /\ \A i \in 0 .. getRelayCount - 1 :
              getFingerprintByIndex(i)' = getFingerprintByIndex(i) ]_vars

\* A successful batch has rewritten, with another value, the fingerprint
\* stored at index 0 while a second fingerprint is stored at index 1.
C11_Witness ==
    /\ last.op = "batchUpdateRelays"
    /\ last.ok
    /\ getRelayCount = 2
    /\ previous # <<>>
    /\ previous[1].fingerprint = getFingerprintByIndex(0).value
    /\ last.relays[1].fingerprint = getFingerprintByIndex(0).value
    /\ last.relays[1] # previous[1]

\* C12 as stated: for every offset below the count and every limit of the
\* uint256 range, getRelaysPaginated(offset, limit) returns the stored records
\* of the fingerprints at index positions offset .. min(offset + limit,
\* count) - 1, in index order, each once; getRelaysPaginated(0, count) returns
\* every record once and getRelaysPaginated(count - 1, 5) returns one record.
C12_Original ==
    /\ \A offset \in 0 .. UintMax, limit \in 0 .. UintMax :
          offset < getRelayCount =>
              LET page == getRelaysPaginated(offset, limit)
                  n == Min(limit, getRelayCount - offset)
              IN  /\ page.ok
                  /\ Len(page.value) = n
                  /\ \A k \in 1 .. n :
                        page.value[k] = getRelay(getFingerprintByIndex(offset + k - 1).value).value
    /\ getRelayCount > 0 =>
          /\ Len(getRelaysPaginated(0, getRelayCount).value) = getRelayCount
          /\ \A fp \in Fingerprints :
                relayExists(fp) =>
                    Cardinality({k \in 1 .. getRelayCount :
                        getRelaysPaginated(0, getRelayCount).value[k] = getRelay(fp).value}) = 1
          /\ Len(getRelaysPaginated(getRelayCount - 1, 5).value) = 1

\* C13 as stated: getRelaysPaginated fails with the offset reason exactly when
\* offset >= count; for every offset below the count and every limit of the
\* uint256 range it succeeds with the available tail; getFingerprintByIndex(i)
\* fails with the index reason exactly when i >= count; the two reasons differ
\* from getRelay's not-found reason.
C13_Original ==
    /\ \A offset \in 0 .. UintMax, limit \in 0 .. UintMax :
          LET page == getRelaysPaginated(offset, limit)
          IN  /\ (offset >= getRelayCount) <=> (~page.ok /\ page.err = ErrOffset)
              /\ (offset < getRelayCount) =>
                    /\ page.ok
                    /\ Len(page.value) = Min(limit, getRelayCount - offset)
    /\ \A i \in 0 .. UintMax :
          LET fp == getFingerprintByIndex(i)
          IN  (i >= getRelayCount) <=> (~fp.ok /\ fp.err = ErrIndex)
    /\ ErrOffset # ErrNotFound
    /\ ErrIndex # ErrNotFound
    /\ ErrOffset # ErrIndex

\* C14: an administrative call by the owner with a bad argument fails with
\* the reason of that argument and leaves owner, updater set, records and
\* fingerprint list unchanged: transferOwnership to address(0);
\* addAuthorizedUpdater of address(0) and of an authorized account;
\* removeAuthorizedUpdater of an account that is not authorized.
C14_BadArgumentRejected ==
    [][ ( /\ last = Idle
          /\ IsAdmin(last')
          /\ last'.sender = owner )
        => /\ ( (last'.op = "transferOwnership" /\ last'.target = ZeroAddress)
                => (~last'.ok /\ last'.err = ErrZeroOwner /\ storage' = storage) )
           /\ ( (last'.op = "addAuthorizedUpdater" /\ last'.target = ZeroAddress)
                => (~last'.ok /\ last'.err = ErrZeroUpdater /\ storage' = storage) )
           /\ ( ( /\ last'.op = "addAuthorizedUpdater"
                  /\ last'.target # ZeroAddress
                  /\ authorizedUpdaters[last'.target] )
                => (~last'.ok /\ last'.err = ErrAlreadyAuthorized /\ storage' = storage) )
           /\ ( (last'.op = "removeAuthorizedUpdater" /\ ~authorizedUpdaters[last'.target])
                => (~last'.ok /\ last'.err = ErrNotAuthorized /\ storage' = storage) ) ]_vars

\* The owner has been refused a second addAuthorizedUpdater of an account
\* that is still authorized, on a store that holds records.
C14_Witness ==
    /\ last.op = "addAuthorizedUpdater"
    /\ ~last.ok
    /\ last.err = ErrAlreadyAuthorized
    /\ last.sender = owner
    /\ authorizedUpdaters[last.target]
    /\ grant[last.target] = "added"
    /\ getRelayCount > 0

\* ------------------------------------------------------------ properties of a run

\* The positions (1-based) of the events of the current run of some kinds.
EventsOf(kinds) == {p \in 1 .. Len(events) : events[p].kind \in kinds}

\* The batches (0-based) whose transaction the current run has seen mined.
ConfirmedBatches == {events[p].batch : p \in EventsOf({"confirmed"})}

\* The positions in the ranking-ordered sequence of the records of chunk b
\* (0-based), for contiguous chunks of batchSize records.
ChunkPositions(b) ==
    {q \in 1 .. Len(relayData) : b * batchSize < q /\ q <= (b + 1) * batchSize}

\* The positions of the records the current run has applied to the store.
AppliedPositions == UNION {ChunkPositions(b) : b \in ConfirmedBatches}

\* The number of chunks of the current run: Len(relayData) / batchSize,
\* rounded up.
NumChunks == (Len(relayData) + batchSize - 1) \div batchSize

\* The fingerprints of a sequence of records, each once, in the order of
\* their first occurrence.
RECURSIVE FirstOccurrences(_)
FirstOccurrences(relays) ==
    IF relays = <<>> THEN <<>>
    ELSE LET front == FirstOccurrences(SubSeq(relays, 1, Len(relays) - 1))
             fp == relays[Len(relays)].fingerprint
         IN  IF fp \in Range(front) THEN front ELSE Append(front, fp)

\* A run that sent transactions has printed its summary, every chunk
\* confirmed, after a run in which some chunks failed and others were applied.
Resumed ==
    /\ pc = "done"
    /\ summary # <<>>
    /\ ~dryRun
    /\ firstRun.ended
    /\ firstRun.failed > 0
    /\ firstRun.successful > 0
    /\ summary[1].failed = 0

\* C15 as stated (resumability): after a run in which some chunks failed and
\* others were applied, a second run on the same feed in which every chunk
\* succeeds leaves the store as one fully successful run from the initial
\* (empty) store leaves it: each record of the ranking-ordered sequence stored
\* under its fingerprint, nothing else stored, and the fingerprint list in the
\* order of the sequence.
C15_Original ==
    Resumed =>
        /\ \A k \in 1 .. Len(relayData) :
              LastOccurrence(relayData, k) =>
                  getRelay(relayData[k].fingerprint).value = relayData[k]
        /\ \A fp \in FeedFingerprints :
              relayExists(fp) => \E k \in 1 .. Len(relayData) : relayData[k].fingerprint = fp
        /\ fingerprintList = FirstOccurrences(relayData)

\* Both runs have printed a summary without a failed chunk.
BothRunsSucceeded ==
    /\ pc = "done"
    /\ summary # <<>>
    /\ summary[1].failed = 0
    /\ summary[1].successful > 0
    /\ firstRun.ended
    /\ firstRun.failed = 0
    /\ firstRun.successful > 0

\* C16 as stated (pipeline idempotence): after two fully successful runs on
\* an unchanged feed the store is exactly as after the first run: same count,
\* same fingerprint list without duplicates, identical records.
C16_Original ==
    BothRunsSucceeded =>
        /\ getRelayCount = Len(firstRun.list)
        /\ fingerprintList = firstRun.list
        /\ \A i, j \in 1 .. Len(fingerprintList) :
              fingerprintList[i] = fingerprintList[j] => i = j
        /\ relaysByFingerprint = firstRun.map

\* C16, amended: after two fully successful runs on an unchanged feed the
\* count and the fingerprint list are as after the first run, without
\* duplicates, and every record is identical in every field but lastSeen;
\* lastSeen is not earlier than after the first run, and differs only for a
\* feed entry whose last_seen is absent, no date, or later than the lastSeen
\* the first run stored; when the second run transformed the feed to the
\* same records, the store is exactly as after the first run.
C16_IdempotentButLastSeen ==
    BothRunsSucceeded =>
        /\ getRelayCount = Len(firstRun.list)
        /\ fingerprintList = firstRun.list
        /\ \A i, j \in 1 .. Len(fingerprintList) :
              fingerprintList[i] = fingerprintList[j] => i = j
        /\ \A fp \in FeedFingerprints :
              /\ [relaysByFingerprint[fp] EXCEPT !.lastSeen = firstRun.map[fp].lastSeen]
                     = firstRun.map[fp]
              /\ relaysByFingerprint[fp].lastSeen >= firstRun.map[fp].lastSeen
              /\ relaysByFingerprint[fp].lastSeen # firstRun.map[fp].lastSeen =>
                    \E k \in 1 .. Len(feed) :
                        /\ ToUpperCase(feed[k].fingerprint) = fp
                        /\ \/ feed[k].last_seen = ""
                           \/ DateSeconds(UtcString(feed[k].last_seen)) = NaN
                           \/ DateSeconds(UtcString(feed[k].last_seen)) > firstRun.map[fp].lastSeen
        /\ relayData = firstRun.relayData => relaysByFingerprint = firstRun.map

\* Two fully successful runs that sent transactions, on a feed of two or more
\* relays, and a lastSeen that the second run moved.
C16_Witness ==
    /\ BothRunsSucceeded
    /\ ~dryRun
    /\ getRelayCount >= 2
    /\ relaysByFingerprint # firstRun.map

\* C17 as stated: a chunk whose submission fails with a transient signal is
\* submitted again, up to 5 times, and is recorded as failed only after these
\* retries: a failure recorded for a transient signal comes after 1 + 5
\* submissions of its chunk.
C17_Original ==
    \A p \in EventsOf({"failed"}) :
        events[p].error \in TransientMessages =>
            Cardinality({q \in EventsOf({"submit"}) :
                            q < p /\ events[q].batch = events[p].batch}) = 1 + 5

C19_Original ==
    \E k \in 0 .. Len(relayData) : AppliedPositions = 1 .. k

\* C20 (strictly sequential submission): at most one chunk is in flight at
\* any time; the chunks are submitted in increasing order; a chunk is
\* submitted only when the outcome of every earlier chunk is known; and
\* between the confirmation of a chunk and the next submission the
\* inter-chunk delay has elapsed.
C20_Sequential ==
    LET IsSubmit(p) == events[p].kind = "submit"
        IsOutcome(p) == events[p].kind \in {"confirmed", "failed"}
        InFlight(p) == Cardinality({q \in 1 .. p : IsSubmit(q)})
                           - Cardinality({q \in 1 .. p : IsOutcome(q)})
    IN  /\ \A p \in 0 .. Len(events) : InFlight(p) \in {0, 1}
        /\ (pc = "inflight") <=> (InFlight(Len(events)) = 1)
        /\ \A p \in 1 .. Len(events) :
              IsSubmit(p) =>
                  /\ events[p].batch = Cardinality({q \in 1 .. p - 1 : IsSubmit(q)})
                  /\ \A b \in 0 .. events[p].batch - 1 :
                        \E q \in 1 .. p - 1 : IsOutcome(q) /\ events[q].batch = b
                  /\ \A q \in 1 .. p - 1 :
                        events[q].kind = "confirmed" =>
                            \E d \in q + 1 .. p - 1 :
                                events[d].kind = "delay" /\ events[d].batch = events[q].batch

\* The second chunk is in flight: the first was confirmed and the delay that
\* follows it has elapsed.
C20_Witness ==
    /\ pc = "inflight"
    /\ batchIndex = 1
    /\ Len(events) = 4
    /\ events[2].kind = "confirmed"
    /\ events[3].kind = "delay"
    /\ events[4].kind = "submit"

\* ------------------------------------------------------------ termination, atomicity, order

\* C21 as stated: no operation of the pipeline blocks for ever: every run
\* that starts reaches its summary.
C21_Original == (pc = "start") ~> (pc = "done" /\ (relayData # <<>> => summary # <<>>))

\* The records and the fingerprint list as they were when the current run
\* started.
BaseMap == IF firstRun.ended THEN firstRun.map ELSE [fp \in FeedFingerprints |-> ZeroRelay]
BaseList == IF firstRun.ended THEN firstRun.list ELSE <<>>

\* C22 (a chunk is applied atomically): in every state, which is every point
\* at which a read can be served or the run can stop, each chunk of the run
\* is either applied whole (every record of it is stored and listed, as the
\* views return it) or not at all (every record of it is as it was when the
\* run started, listed or not as it was), and the store is consistent: the
\* list has no duplicate, a fingerprint is listed exactly when it is stored,
\* the count is the number of stored records, page(0, count) returns each
\* stored record once, and every stored record is valid.
C22_ChunkAtomic ==
    /\ \A b \in 0 .. NumChunks - 1 :
          IF b \in ConfirmedBatches
          THEN \A q \in ChunkPositions(b) :
                  /\ relayExists(relayData[q].fingerprint)
                  /\ getRelay(relayData[q].fingerprint).ok
                  /\ getRelay(relayData[q].fingerprint).value = relayData[q]
                  /\ relayData[q].fingerprint \in Range(fingerprintList)
          ELSE \A q \in ChunkPositions(b) :
                  /\ relaysByFingerprint[relayData[q].fingerprint]
                         = BaseMap[relayData[q].fingerprint]
                  /\ relayData[q].fingerprint \in Range(fingerprintList)
                         <=> relayData[q].fingerprint \in Range(BaseList)
    /\ \A i, j \in 1 .. Len(fingerprintList) :
          fingerprintList[i] = fingerprintList[j] => i = j
    /\ \A fp \in FeedFingerprints :
          /\ relayExists(fp) <=> fp \in Range(fingerprintList)
          /\ relayExists(fp) =>
                /\ relaysByFingerprint[fp].fingerprint = fp
                /\ ~Violates(relaysByFingerprint[fp], now)
    /\ getRelayCount = Cardinality({fp \in FeedFingerprints : relayExists(fp)})
    /\ getRelayCount > 0 =>
          LET page == getRelaysPaginated(0, getRelayCount)
          IN  /\ page.ok
              /\ Len(page.value) = getRelayCount
              /\ \A i \in 1 .. getRelayCount :
                    page.value[i] = relaysByFingerprint[fingerprintList[i]]

\* The run is between two chunks of two records and one: the first is
\* applied, the second is not yet submitted.
C22_Witness ==
    /\ pc = "delay"
    /\ batchSize = 2
    /\ NumChunks = 2
    /\ ConfirmedBatches = {0}
    /\ getRelayCount = 2

FeedValidRanked ==
    /\ feed # <<>>
    /\ \A k \in 1 .. Len(feed) :
          /\ transformRelay(feed[k], now) # <<>>
          /\ validateRelayData(transformRelay(feed[k], now)[1])
          /\ ~Violates(transformRelay(feed[k], now)[1], now)
    /\ \A k \in 1 .. Len(feed) - 1 :
          feed[k].consensus_weight >= feed[k + 1].consensus_weight

\* The first run, on the empty store, has sent transactions and printed its
\* summary without a failed chunk.
FirstRunSucceeded ==
    /\ ~firstRun.ended
    /\ ~dryRun
    /\ pc = "done"
    /\ summary # <<>>
    /\ summary[1].failed = 0

\* C24 (a successful run stores the feed in ranking order): for a feed of
\* valid entries in ranking order and chunk size s, a fully successful run on
\* the empty store has submitted ceil(n / s) chunks in increasing order, chunk
\* j holding the records of the entries j*s .. (j+1)*s - 1 of the feed;
\* afterwards the count is the number of entries and getFingerprintByIndex(i)
\* is the fingerprint, in upper case, of the entry i of the feed.
C24_RankingOrderStored ==
    (FirstRunSucceeded /\ FeedValidRanked) =>
        LET Submit(e) == e.kind = "submit"
            sub == SelectSeq(events, Submit)
            n == Len(feed)
            chunks == (n + batchSize - 1) \div batchSize
        IN  /\ Len(sub) = chunks
            /\ Len(batches) = chunks
            /\ \A j \in 0 .. chunks - 1 :
                  /\ sub[j + 1].batch = j
                  /\ Len(batches[j + 1]) = Min(batchSize, n - j * batchSize)
                  /\ \A k \in 1 .. Len(batches[j + 1]) :
                        batches[j + 1][k].fingerprint
                            = ToUpperCase(feed[j * batchSize + k].fingerprint)
            /\ getRelayCount = n
            /\ \A i \in 0 .. n - 1 :
                  /\ getFingerprintByIndex(i).ok
                  /\ getFingerprintByIndex(i).value = ToUpperCase(feed[i + 1].fingerprint)
                  /\ getRelay(getFingerprintByIndex(i).value).value.consensusWeight
                         = feed[i + 1].consensus_weight

\* Three valid entries in ranking order, uploaded in chunks of two and one.
C24_Witness ==
    /\ FirstRunSucceeded
    /\ FeedValidRanked
    /\ Len(feed) = 3
    /\ batchSize = 2
    /\ getRelayCount = 3
    /\ Len(batches) = 2

\* C25 as stated: the filter of the transformer mirrors the validation of
\* the store: a transformed record passes validateRelayData exactly when the
\* store accepts it, and no chunk of a run is refused by the contract for a
\* validation reason.
C25_Original ==
    /\ \A k \in 1 .. Len(feed) :
          transformRelay(feed[k], now) # <<>> =>
              (validateRelayData(transformRelay(feed[k], now)[1])
                   <=> ~Violates(transformRelay(feed[k], now)[1], now))
    /\ \A p \in EventsOf({"failed"}) : events[p].error \notin ValidationErrors

\* C26 as stated: a run after a run in which some chunks failed and others
\* were applied submits no chunk whose records the first run has stored
\* already.
C26_Original ==
    (firstRun.ended /\ firstRun.failed > 0 /\ firstRun.successful > 0) =>
        \A p \in EventsOf({"submit"}) :
            \E q \in ChunkPositions(events[p].batch) :
                firstRun.map[relayData[q].fingerprint] = ZeroRelay

\* C27 (a dry run writes nothing): in dry-run mode no transaction is
\* submitted for any chunk, the records and the fingerprint list stay as
\* deployed, the owner and the updaters are as they were, and each chunk
\* handled is recorded as a success with relaysUpdated the length of the
\* chunk; the summary counts every chunk as successful and every record as
\* updated.
C27_DryRunWritesNothing ==
    dryRun =>
        /\ events = <<>>
        /\ pc \notin {"inflight", "delay"}
        /\ relaysByFingerprint = [fp \in FeedFingerprints |-> ZeroRelay]
        /\ fingerprintList = <<>>
        /\ getRelayCount = 0
        /\ owner = Deployer
        /\ \A a \in Address : authorizedUpdaters[a] <=> grant[a] = "added"
        /\ Len(results) = batchIndex
        /\ \A k \in 1 .. Len(results) :
              results[k] = UpdateResult(TRUE, Len(batches[k]), "")
        /\ summary # <<>> =>
              /\ Len(results) = NumChunks
              /\ summary[1].successful = NumChunks
              /\ summary[1].failed = 0
              /\ summary[1].totalRelaysUpdated = Len(relayData)

\* A dry run of two chunks has printed its summary.
C27_Witness ==
    /\ dryRun
    /\ pc = "done"
    /\ summary # <<>>
    /\ Len(results) = 2
    /\ summary[1].totalRelaysUpdated >= 2

\* ------------------------------------------------------------ the transformer

IsHex40(str) == str \in {FpALower, FpA, FpB, FpC, FpD}

\* C30 as stated: the transformer keeps a document exactly when its
\* fingerprint is present and is 40 hexadecimal digits; the fingerprint of
\* the record is that of the document in upper case; and the records
\* fetchRelayData returns are those of such documents.
C30_Original ==
    /\ \A k \in 1 .. Len(feed) :
          /\ transformRelay(feed[k], now) # <<>> <=> IsHex40(feed[k].fingerprint)
          /\ transformRelay(feed[k], now) # <<>> =>
                /\ IsHex40(transformRelay(feed[k], now)[1].fingerprint)
                /\ transformRelay(feed[k], now)[1].fingerprint \notin {FpALower}
    /\ pc # "start" =>
          \A q \in 1 .. Len(relayData) : IsHex40(relayData[q].fingerprint)

\* C31 (the last-seen timestamp): for every document the transformer keeps,
\* lastSeen is at most the clock value read at the transformation: a
\* last_seen that parses to a second after the clock gives the clock value,
\* one that parses to a second not after it gives that second, an absent or
\* unparsable one gives the clock value; and no record fetchRelayData has
\* returned carries a lastSeen after the clock.
C31_LastSeenNotAfterNow ==
    /\ \A k \in 1 .. Len(feed) :
          LET e == feed[k]
              t == transformRelay(e, now)
          IN  t # <<>> =>
                  /\ t[1].lastSeen <= now
                  /\ e.last_seen = "1970-01-01 00:00:00" => t[1].lastSeen = 0
                  /\ e.last_seen = "1970-01-01 00:00:01" =>
                        t[1].lastSeen = IF now < 1 THEN now ELSE 1
                  /\ e.last_seen \in {"", "yesterday"} => t[1].lastSeen = now
    /\ pc # "start" =>
          \A q \in 1 .. Len(relayData) : relayData[q].lastSeen <= now

\* fetchRelayData, at clock value 0, has returned the record of a document
\* last seen at second 1, with lastSeen 0.
C31_Witness ==
    /\ pc # "start"
    /\ \E k \in 1 .. Len(feed), q \in 1 .. Len(relayData) :
          /\ feed[k].last_seen = "1970-01-01 00:00:01"
          /\ relayData[q].fingerprint = ToUpperCase(feed[k].fingerprint)
          /\ relayData[q].lastSeen = 0

\* The key of a record under the field sorted by, as a number that grows with
\* the order of the field.
KeyOf(relay) ==
    CASE sortBy = "uptime" -> relay.uptime
      [] sortBy = "bandwidth" -> relay.bandwidth
      [] sortBy = "consensusWeight" -> relay.consensusWeight
      [] sortBy = "lastSeen" -> relay.lastSeen
      [] sortBy = "fingerprint" ->
            (CASE relay.fingerprint = FpA -> 1 [] relay.fingerprint = FpB -> 2
               [] relay.fingerprint = FpC -> 3 [] OTHER -> 4)
      [] sortBy = "nickname" -> IF relay.nickname = "Relay1" THEN 1 ELSE 3
      [] sortBy = "country" -> IF relay.country = "DE" THEN 1 ELSE 2
      [] sortBy = "asNumber" -> IF relay.asNumber = "AS0" THEN 0 ELSE 1234
      [] OTHER -> 0

\* How often a record occurs in an array.
Occurrences(array, relay) == Cardinality({k \in 1 .. Len(array) : array[k] = relay})

\* C32 (sortRelays): the array returned is a permutation of the argument,
\* ordered by the field sorted by (descending when the third argument is
\* omitted or true, ascending when it is false), with the records of equal
\* keys in the order they have in the argument; the argument is left as it
\* was.  The array returned is a function of the arguments alone.
C32_StableSort ==
    [][pc = "sort" /\ pc' = "sorted" =>
          /\ relayData' = relayData
          /\ Len(sorted') = Len(relayData)
          /\ \A k \in 1 .. Len(relayData) :
                Occurrences(sorted', relayData[k]) = Occurrences(relayData, relayData[k])
          /\ \A k \in 1 .. Len(sorted') - 1 :
                IF descending = <<FALSE>>
                THEN KeyOf(sorted'[k]) <= KeyOf(sorted'[k + 1])
                ELSE KeyOf(sorted'[k]) >= KeyOf(sorted'[k + 1])
          /\ \A k \in 1 .. Len(relayData) :
                LET SameKey(relay) == KeyOf(relay) = KeyOf(relayData[k])
                IN  SelectSeq(sorted', SameKey) = SelectSeq(relayData, SameKey)
    ]_vars

\* sortRelays, called without its third argument, has returned three records
\* in another order than they were given in, two of them with equal keys and
\* different contents.
C32_Witness ==
    /\ pc = "sorted"
    /\ descending = <<>>
    /\ Len(sorted) = 3
    /\ sorted # relayData
    /\ \E j, k \in 1 .. 3 :
          /\ j < k
          /\ sorted[j] # sorted[k]
          /\ KeyOf(sorted[j]) = KeyOf(sorted[k])
    /\ KeyOf(sorted[1]) > KeyOf(sorted[3])

\* The arrays of an array of arrays, one after the other.
RECURSIVE Flatten(_)
Flatten(arrays) == IF arrays = <<>> THEN <<>> ELSE Head(arrays) \o Flatten(Tail(arrays))

\* C33 (batchRelays): for an array of n records and a batch size s >= 1 the
\* call returns ceil(n / s) batches whose concatenation is the array: every
\* batch but the last has s records, the last has 1 to s, none is empty, and
\* the empty array gives no batch.
C33_Chunks ==
    (pc = "batched" /\ batchSize >= 1) =>
        LET n == Len(relayData)
            s == batchSize
            c == Len(batches)
        IN  /\ c * s >= n
            /\ (c - 1) * s < n \/ (n = 0 /\ c = 0)
            /\ Flatten(batches) = relayData
            /\ \A k \in 1 .. c - 1 : Len(batches[k]) = s
            /\ c > 0 => Len(batches[c]) \in 1 .. s
            /\ \A k \in 1 .. c : batches[k] # <<>>
            /\ n = 0 => batches = <<>>
            /\ batches = batchRelays(relayData, batchSize)

\* batchRelays has returned two batches, a full one and a shorter one.
C33_Witness ==
    /\ pc = "batched"
    /\ Len(batches) = 2
    /\ Len(batches[1]) = batchSize
    /\ Len(batches[2]) < batchSize

\* C40 as stated: for every array and every integer batch size, 0 and
\* negative ones included, the loop of batchRelays ends and the call returns.
C40_Original == (pc = "batch") ~> (pc = "batched")

\* ------------------------------------------------------------ the store, continued

\* One upsert, as the interface describes it: the record replaces the value
\* under its fingerprint, and a fingerprint not yet in the index is appended.
UpsertOnce(st, relay) ==
    [map  |-> [fp \in DOMAIN st.map |-> IF fp = relay.fingerprint THEN relay ELSE st.map[fp]],
     list |-> IF relay.fingerprint \in Range(st.list) THEN st.list
              ELSE st.list \o <<relay.fingerprint>>]

\* The records of a sequence upserted one by one, in order.
RECURSIVE UpsertEach(_, _)
UpsertEach(st, relays) ==
    IF relays = <<>> THEN st ELSE UpsertEach(UpsertOnce(st, Head(relays)), Tail(relays))

\* C36 (a batch is a sequence of upserts): a successful batchUpdateRelays
\* leaves the records and the index that upserting its records one by one in
\* batch order leaves, and a successful updateRelay is one such upsert; a new
\* fingerprint that occurs more than once in the batch is appended once, the
\* count grows by the number of distinct new fingerprints, and the value of
\* the last occurrence is stored.
C36_BatchIsSequence ==
    [][(last = Idle /\ IsWrite(last') /\ last'.ok) =>
          LET before == [map |-> relaysByFingerprint, list |-> fingerprintList]
              relays == last'.relays
              after == UpsertEach(before, relays)
              new == {relays[i].fingerprint : i \in 1 .. Len(relays)} \ Range(fingerprintList)
          IN  /\ relaysByFingerprint' = after.map
              /\ fingerprintList' = after.list
              /\ Len(fingerprintList') = Len(fingerprintList) + Cardinality(new)
              /\ \A fp \in new : Cardinality(Positions(fingerprintList', fp)) = 1
              /\ \A i \in 1 .. Len(relays) :
                    LastOccurrence(relays, i) =>
                        relaysByFingerprint'[relays[i].fingerprint] = relays[i]
    ]_vars

\* A successful batch of two different records with one fingerprint: the
\* index holds the fingerprint once and nothing else, and the record stored
\* is the second.
C36_Witness ==
    /\ last.op = "batchUpdateRelays"
    /\ last.ok
    /\ Len(last.relays) = 2
    /\ last.relays[1].fingerprint = last.relays[2].fingerprint
    /\ last.relays[1] # last.relays[2]
    /\ fingerprintList = <<last.relays[1].fingerprint>>
    /\ relaysByFingerprint[last.relays[2].fingerprint] = last.relays[2]

\* C37 (frame): a transaction changes its own part of the storage only.
\* transferOwnership changes nothing but the owner, so the owner that handed
\* over can write afterwards exactly when it is an updater;
\* addAuthorizedUpdater and removeAuthorizedUpdater change nothing but the
\* flag of the account they name; updateRelay and batchUpdateRelays change
\* neither the owner nor any flag, and no record and no index position of a
\* fingerprint that is not in the call; a transaction that reverts and the
\* handing over of a receipt change nothing.
C37_Frame ==
    [][/\ (last = Idle /\ last'.op = "transferOwnership") =>
              /\ authorizedUpdaters' = authorizedUpdaters
              /\ relaysByFingerprint' = relaysByFingerprint
              /\ fingerprintList' = fingerprintList
              /\ (last'.ok /\ owner' # owner) =>
                    ((owner = owner' \/ authorizedUpdaters'[owner]) <=> authorizedUpdaters[owner])
       /\ (last = Idle /\ last'.op \in {"addAuthorizedUpdater", "removeAuthorizedUpdater"}) =>
              /\ owner' = owner
              /\ relaysByFingerprint' = relaysByFingerprint
              /\ fingerprintList' = fingerprintList
              /\ \A a \in Address \ {last'.target} :
                    authorizedUpdaters'[a] = authorizedUpdaters[a]
       /\ (last = Idle /\ IsWrite(last')) =>
              /\ owner' = owner
              /\ authorizedUpdaters' = authorizedUpdaters
              /\ \A fp \in Fingerprints \ {last'.relays[i].fingerprint : i \in 1 .. Len(last'.relays)} :
                    /\ relaysByFingerprint'[fp] = relaysByFingerprint[fp]
                    /\ Positions(fingerprintList', fp) = Positions(fingerprintList, fp)
       /\ (last = Idle /\ last' # Idle /\ ~last'.ok) => storage' = storage
       /\ last # Idle => storage' = storage
    ]_vars

\* The owner, an updater itself, has handed the contract with a record in it
\* over to another account: the record and the flags are as they were, and
\* the former owner can still write.
C37_Witness ==
    /\ last.op = "transferOwnership"
    /\ last.ok
    /\ owner # last.sender
    /\ authorizedUpdaters[last.sender]
    /\ onlyAuthorized(last.sender)
    /\ fingerprintList # <<>>

\* C38 (owner and updaters): as constructed, the owner is the deploying
\* account, no account is an updater and the count is 0; in every state
\* exactly one address is the owner, it is not the zero address, and the zero
\* address is not an updater.
C38_OwnerInvariant ==
    /\ last.op = "constructor" =>
          /\ owner = last.sender
          /\ \A a \in Address : ~authorizedUpdaters[a]
          /\ getRelayCount = 0
    /\ Cardinality({a \in Address : onlyOwner(a)}) = 1
    /\ owner # ZeroAddress
    /\ ~authorizedUpdaters[ZeroAddress]

\* The contract has changed hands, has an updater, and its owner has just
\* been refused the transfer to the zero address.
C38_Witness ==
    /\ owner # Deployer
    /\ \E a \in Accounts : authorizedUpdaters[a]
    /\ last.op = "transferOwnership"
    /\ last.sender = owner
    /\ last.target = ZeroAddress
    /\ last.err = ErrZeroOwner

\* ------------------------------------------------------------ the frontend

\* The first n elements of a sequence.
Prefix(seq, n) == SubSeq(seq, 1, Min(n, Len(seq)))

\* C34 as stated: a read that fails with a rate-limit signal is tried again
\* after a wait of 1 s, 2 s, 4 s, 8 s and 16 s before the successive
\* retries, at most 5 attempts per batch; any other failure ends the call
\* without a retry.
C34_Original ==
    \A k \in 1 .. Len(sweeps) :
        /\ sweeps[k].retries <= 5
        /\ Len(sweeps[k].delays) = sweeps[k].retries
        /\ sweeps[k].delays = Prefix(<<1000, 2000, 4000, 8000, 16000>>, sweeps[k].retries)

\* The records at the first n positions of the index, in index order.
StorePrefix(n) == [j \in 1 .. n |-> relaysByFingerprint[fingerprintList[j]]]

\* C35 (the progressive sweep), on a store that is not written meanwhile:
\* the cache, once set, is the records at the first positions of the index,
\* in index order, none twice and none skipped, up to the end of a batch;
\* what a call has fetched after the read of batch i are the records at the
\* positions before (i + 1) * batchSize (or all, when fewer exist); while
\* the query is not empty and the cache is used, the search results are the
\* matching records of the cached prefix and nothing else; and a call that
\* has read its last batch holds every record of the store once.
C35_ProgressivePrefix ==
    /\ cacheData # <<>> =>
          \E n \in 1 .. getRelayCount :
              /\ n = getRelayCount \/ n % SweepBatch = 0
              /\ cacheData[1].relays = StorePrefix(n)
    /\ \A k \in 1 .. Len(sweeps) :
          LET read == IF sweeps[k].pc = "pause" THEN sweeps[k].i + 1 ELSE sweeps[k].i
          IN  /\ sweeps[k].allRelays = StorePrefix(Min(read * SweepBatch, getRelayCount))
              /\ (sweeps[k].pc = "pause" /\ sweeps[k].i + 1 = sweeps[k].batches) =>
                    /\ Len(sweeps[k].allRelays) = getRelayCount
                    /\ \A fp \in Range(fingerprintList) :
                          Cardinality({j \in 1 .. Len(sweeps[k].allRelays) :
                                          sweeps[k].allRelays[j].fingerprint = fp}) = 1
    /\ (searchQuery # "" /\ cacheData # <<>> /\ cacheData[1].relays # <<>>) =>
          LET cached == Range(cacheData[1].relays)
              Hit(relay) == searchQuery = "relay" /\ relay.nickname \in {"Relay1", "Relay3"}
          IN  /\ Range(filteredRelays) = {relay \in cached : Hit(relay)}
              /\ Len(filteredRelays) = Cardinality({relay \in cached : Hit(relay)})

\* A call has read its second batch: the cache holds the three records of
\* the store, and the search for "relay" shows two of them, while the call is
\* still running.
C35_Witness ==
    /\ searchQuery = "relay"
    /\ \E k \in 1 .. Len(sweeps) : sweeps[k].i = 1 /\ sweeps[k].pc = "pause"
    /\ cacheData # <<>>
    /\ Len(cacheData[1].relays) = 3
    /\ Len(filteredRelays) = 2

\* C39 as stated: at most one call of fetchAllRelaysProgressively is running
\* at any time, whatever is typed and clicked; clearing the search while a
\* call runs and searching again starts no second call beside it.
C39_Original == Len(sweeps) <= 1

\* C28 as stated: cached relay data whose timestamp is more than
\* CACHE_TTL_MS (5 minutes) old is never the data source of the search.
C28_Original ==
    UsesCache => date - cacheData[1].timestamp <= CACHE_TTL_MS

====
